---- MODULE Spec2Model ----
(***************************************************************************)
(* Model of the simulation engines of renault_ia_analysis:                 *)
(*   - RealTimeSimulator            (backend/src/simulation/physics_engine) *)
(*   - VehiclePhysicsSimulation     (backend/src/simulation/physics_engine) *)
(*   - VehiclePhysicsSimulation     (backend/src/simulation/vehicle_simulation) *)
(*   - VehicleSimulation            (backend/src/simulation/vehicle_simulation) *)
(*                                                                         *)
(* Python floats are modelled in fixed point.  Units of the integers:      *)
(*   speed                 0.01 km/h        acceleration      0.01 m/s^2    *)
(*   temperature           0.01 degC        battery_level     0.00001 %     *)
(*   motor_load            0.01 %           road_grade        0.01 %        *)
(*   wind_speed            0.01 m/s         road_condition    0.01          *)
(*   tire_pressure         0.001 bar        total_distance    0.01 m        *)
(*   energy_consumption    0.01 kWh/100km   instant_consumption  1 W        *)
(*   autonomy_remaining    0.01 km          elapsed time      0.1 s         *)
(* Divisions round towards minus infinity (\div).                          *)
(***************************************************************************)
EXTENDS Integers, Sequences, FiniteSets, TLC

VARIABLES
    engine,              \* which simulator class this process instantiated
    starts,              \* start() calls since construction or the last stop(), at most 2
    ticks,               \* number of loop iterations / update() calls so far
    \* ---- RealTimeSimulator (physics_engine.py:241-275) ----
    is_running,
    simulation_thread,   \* id of the Thread object last created, 0 = None
    thread_pc,           \* thread id -> position of that loop thread
    ctl_pc,              \* the caller of start/stop: "idle", or "join" inside stop()
    current_mode,
    vehicle_data,
    current_event,
    event_duration,
    delivered,           \* the snapshot last delivered by _notify_callbacks
    data_update_callbacks, \* the registered handlers, in registration order
    invoked,             \* the handlers the last _notify_callbacks called, in order
    ret,                 \* what the last change_mode call returned
    observed,            \* what the last get_current_data call of another thread returned
    tick_local,          \* thread id -> the locals of its tick in progress
    twin,                \* a second run of the simulator, for comparing two runs
    snapshots_after_stop, \* snapshots delivered since the last stop(), -1 once start() followed
    \* ---- the other engines, one record of fields each ----
    pe,                  \* physics_engine.VehiclePhysicsSimulation
    zoe,                 \* vehicle_simulation.VehiclePhysicsSimulation
    vs,                  \* vehicle_simulation.VehicleSimulation
    assistant,           \* models.assistant.Assistant
    predictor,           \* models.predictor.VehiclePredictor
    app                  \* app.py: simulation_active, simulation_thread and the threads

rtsVars == <<is_running, simulation_thread, thread_pc, ctl_pc, current_mode,
             vehicle_data, current_event, event_duration, delivered>>
obsVars == <<data_update_callbacks, invoked, ret, observed, tick_local, twin,
             snapshots_after_stop>>
notRTS == <<engine, pe, zoe, vs, assistant, predictor, app>>
vars == <<engine, starts, ticks, rtsVars, obsVars, pe, zoe, vs, assistant, predictor, app>>

-----------------------------------------------------------------------------
(* Arithmetic helpers *)

Min(a, b) == IF a <= b THEN a ELSE b
Max(a, b) == IF a >= b THEN a ELSE b
Abs(a) == IF a >= 0 THEN a ELSE -a

\* floor(sqrt(n)) for n >= 0, by bisection on [lo, hi]
RECURSIVE IsqrtIn(_, _, _)
IsqrtIn(n, lo, hi) ==
    IF lo >= hi THEN lo
    ELSE LET mid == (lo + hi + 1) \div 2
         IN  IF mid * mid <= n THEN IsqrtIn(n, mid, hi) ELSE IsqrtIn(n, lo, mid - 1)
Isqrt(n) == IsqrtIn(n, 0, 46340)

-----------------------------------------------------------------------------
(* RealTimeSimulator: constants *)

MODE_URBAIN == "urbain"
MODE_SPORT == "sport"
MODE_AUTOROUTE == "autoroute"
MODE_ECO == "eco"

\* vitesse_max, vitesse_moyenne, conso_base as written (km/h, kWh/100km);
\* acceleration_max and variation_vitesse x100; temps_factor x10; regeneration x100
MODE_PARAMS ==
    MODE_URBAIN :> [vitesse_max |-> 50, vitesse_moyenne |-> 30, acceleration_max |-> 200,
                    variation_vitesse |-> 1500, conso_base |-> 16, temps_factor |-> 10,
                    regeneration |-> 40]
 @@ MODE_SPORT :> [vitesse_max |-> 150, vitesse_moyenne |-> 90, acceleration_max |-> 400,
                   variation_vitesse |-> 2500, conso_base |-> 25, temps_factor |-> 15,
                   regeneration |-> 20]
 @@ MODE_AUTOROUTE :> [vitesse_max |-> 130, vitesse_moyenne |-> 110, acceleration_max |-> 150,
                       variation_vitesse |-> 1000, conso_base |-> 21, temps_factor |-> 12,
                       regeneration |-> 10]
 @@ MODE_ECO :> [vitesse_max |-> 90, vitesse_moyenne |-> 60, acceleration_max |-> 100,
                 variation_vitesse |-> 500, conso_base |-> 13, temps_factor |-> 8,
                 regeneration |-> 50]

Modes == DOMAIN MODE_PARAMS

\* mode_factor of _calculate_energy_consumption, x10
mode_factor ==
    MODE_URBAIN :> 10 @@ MODE_SPORT :> 15 @@ MODE_AUTOROUTE :> 11 @@ MODE_ECO :> 8

NoEvent == [name |-> "none", duration |-> 0]

\* a candidate list that is the same in every mode
events_everywhere(mode) ==
    << [name |-> "trafic_dense", duration |-> 50],
       [name |-> "route_degagee", duration |-> 40],
       [name |-> "pluie", duration |-> 60],
       [name |-> "vent_lateral", duration |-> 30],
       [name |-> "montee", duration |-> 25],
       [name |-> "feu_rouge", duration |-> 15],
       [name |-> "peage", duration |-> 10] >>

\* the candidate list built by _handle_random_events for a mode
events(mode) ==
    LET base == << [name |-> "trafic_dense", duration |-> 50],
                   [name |-> "route_degagee", duration |-> 40],
                   [name |-> "pluie", duration |-> 60],
                   [name |-> "vent_lateral", duration |-> 30],
                   [name |-> "montee", duration |-> 25] >>
    IN  IF mode = MODE_URBAIN
        THEN base \o << [name |-> "trafic_dense", duration |-> 50],
                        [name |-> "feu_rouge", duration |-> 15] >>
        ELSE IF mode = MODE_AUTOROUTE
        THEN base \o << [name |-> "peage", duration |-> 10],
                        [name |-> "route_degagee", duration |-> 70] >>
        ELSE base

\* vehicle_data as set by __init__
InitVehicleData ==
    [speed |-> 0, acceleration |-> 0, temperature |-> 2500, battery_level |-> 10000000,
     battery_capacity |-> 60, motor_load |-> 0, road_grade |-> 0, tire_pressure |-> 2400,
     vehicle_weight |-> 1800, wind_speed |-> 0, road_condition |-> 0, total_distance |-> 0,
     energy_consumption |-> 0, instant_consumption |-> 0, simulation_mode |-> MODE_URBAIN,
     autonomy_remaining |-> 39000]

-----------------------------------------------------------------------------
(* RealTimeSimulator: the per-tick algorithm.  A simulator value s is the  *)
(* record [current_mode, vehicle_data, current_event, event_duration]; a   *)
(* draw record d holds the outcomes of the random calls of one tick.       *)

\* _handle_random_events without the "not self.current_event" test
handle_random_events_unguarded(s, d) ==
    IF d.hit
    THEN LET ev == events(s.current_mode)[d.idx]
         IN  [s EXCEPT !.current_event = ev, !.event_duration = ev.duration]
    ELSE s

\* _handle_random_events: d.hit is np.random.random() < event_probability,
\* d.idx the index np.random.choice picks
_handle_random_events(s, d) ==
    IF s.current_event = NoEvent /\ d.hit
    THEN LET ev == events(s.current_mode)[d.idx]
         IN  [s EXCEPT !.current_event = ev, !.event_duration = ev.duration]
    ELSE s

\* the per-event effect of _apply_event_effects (lines 495-526)
event_effect(s, d) ==
    LET event == s.current_event.name
        vd == s.vehicle_data
    IN  IF event = "trafic_dense"
        THEN [vd EXCEPT !.speed = Max(0, (vd.speed * 95) \div 100)]
        ELSE IF event = "route_degagee"
        THEN LET max_speed == 100 * MODE_PARAMS[s.current_mode].vitesse_max
             IN  [vd EXCEPT !.speed = Min(max_speed, (vd.speed * 105) \div 100)]
        ELSE IF event = "pluie"
        THEN [vd EXCEPT !.road_condition = 100,
                        !.energy_consumption = (vd.energy_consumption * 11) \div 10]
        ELSE IF event = "vent_lateral"
        THEN [vd EXCEPT !.wind_speed = d.wind]
        ELSE IF event = "montee"
        THEN [vd EXCEPT !.road_grade = d.grade]
        ELSE IF event = "feu_rouge"
        THEN [vd EXCEPT !.speed = Max(0, vd.speed - 500)]
        ELSE IF event = "peage"
        THEN [vd EXCEPT !.speed = Max(0, vd.speed - 1000)]
        ELSE vd

\* an end of event that resets nothing
event_reset_nothing(event, vd, d) == vd

\* an end of event that resets the three road fields together
event_reset_all(event, vd, d) ==
    IF event \in {"pluie", "vent_lateral", "montee"}
    THEN [vd EXCEPT !.road_condition = 0, !.wind_speed = d.rwind, !.road_grade = d.rgrade]
    ELSE vd

\* the end-of-event reset of _apply_event_effects (lines 535-541)
event_reset(event, vd, d) ==
    IF event = "pluie" THEN [vd EXCEPT !.road_condition = 0]
    ELSE IF event = "vent_lateral" THEN [vd EXCEPT !.wind_speed = d.rwind]
    ELSE IF event = "montee" THEN [vd EXCEPT !.road_grade = d.rgrade]
    ELSE vd

\* an _apply_event_effects that ends the event one tick late
apply_event_effects_late(s, d) ==
    LET event == s.current_event.name
        vd1 == event_effect(s, d)
        dur == s.event_duration - 1
    IN  IF dur < 0
        THEN [s EXCEPT !.vehicle_data = event_reset(event, vd1, d),
                       !.event_duration = dur,
                       !.current_event = NoEvent]
        ELSE [s EXCEPT !.vehicle_data = vd1, !.event_duration = dur]

\* _apply_event_effects: effect, decrement, reset when the duration is used up
_apply_event_effects(s, d) ==
    LET event == s.current_event.name
        vd1 == event_effect(s, d)
        dur == s.event_duration - 1
    IN  IF dur <= 0
        THEN [s EXCEPT !.vehicle_data = event_reset(event, vd1, d),
                       !.event_duration = dur,
                       !.current_event = NoEvent]
        ELSE [s EXCEPT !.vehicle_data = vd1, !.event_duration = dur]

\* a tendency that always accelerates
tendance_always_up(speed, vitesse_moyenne, acceleration_max) ==
    (acceleration_max * 5) \div 10

\* tendance_vitesse (lines 361-370)
tendance_vitesse(speed, vitesse_moyenne, acceleration_max) ==
    IF speed < vitesse_moyenne - 500
    THEN Min((acceleration_max * 5) \div 10, (vitesse_moyenne - speed) \div 10)
    ELSE IF speed > vitesse_moyenne + 500
    THEN Max((-acceleration_max * 3) \div 10, (vitesse_moyenne - speed) \div 10)
    ELSE ((vitesse_moyenne - speed) * 5) \div 100

\* a speed update that keeps the floor but not the ceiling
clamp_speed_floor_only(new_speed, vitesse_max) == Max(0, new_speed)

\* the clamp of the new speed (line 389)
clamp_speed(new_speed, vitesse_max) == Max(0, Min(vitesse_max, new_speed))

\* a distance increment that can be negative
distance_signed(speed, elapsed_time, time_factor) ==
    ((speed - 2500) * elapsed_time * time_factor) \div 360

\* distance_km * 1000: the distance covered in one tick (lines 392-393)
distance_m(speed, elapsed_time, time_factor) ==
    (speed * elapsed_time * time_factor) \div 360

\* an acceleration that is not limited
acceleration_unclamped(speed_change, acceleration_max, elapsed_time) ==
    (speed_change * 100) \div (36 * Max(1, elapsed_time))

\* the acceleration of the tick (lines 383-385): speed_change over
\* 3.6 * max(0.1, elapsed_time), limited to +/- acceleration_max
acceleration_of(speed_change, acceleration_max, elapsed_time) ==
    Min(acceleration_max,
        Max(-acceleration_max,
            (speed_change * 100) \div (36 * Max(1, elapsed_time))))

\* kinematics part of _update_vehicle_state (lines 361-393); mp are the mode
\* parameters read at the start of the tick
kinematics(vd, mp, elapsed_time, d) ==
    LET vitesse_max == 100 * mp.vitesse_max
        vitesse_moyenne == 100 * mp.vitesse_moyenne
        road_effect == -((vd.road_grade * 2) \div 10)
        wind_effect == -((vd.wind_speed * 5) \div 100)
        speed_change ==
            ((tendance_vitesse(vd.speed, vitesse_moyenne, mp.acceleration_max)
              + road_effect + wind_effect) * mp.temps_factor) \div 10 + d.noise
        acceleration == acceleration_of(speed_change, mp.acceleration_max, elapsed_time)
        new_speed == vd.speed + (acceleration * 36 * elapsed_time) \div 100
        speed == clamp_speed(new_speed, vitesse_max)
        distance == distance_m(speed, elapsed_time, mp.temps_factor)
    IN  [vd EXCEPT !.acceleration = acceleration,
                   !.speed = speed,
                   !.total_distance = vd.total_distance + distance]

\* instant_consumption in W (lines 395-421)
instant_power(vd, mp) ==
    LET v == (vd.speed * 25) \div 9                          \* mm/s
        aero_resistance == (((v * v) \div 1000) * 147) \div 320     \* mN
        rolling_resistance == (13 * vd.vehicle_weight * 981) \div 100   \* mN
        grade_resistance ==                                        \* mN
            10 * ((vd.vehicle_weight * 981 * vd.road_grade)
                    \div Isqrt(100000000 + vd.road_grade * vd.road_grade))
        road_power ==
            (((aero_resistance + rolling_resistance + grade_resistance) \div 10)
               * (v \div 10)) \div 10000
        accel_power == Max(0, ((vd.vehicle_weight \div 100) * vd.acceleration * v) \div 1000)
        motor_efficiency == 9000 - (vd.temperature - 2500) \div 6   \* x 10000
        total_power == ((road_power + accel_power) * 1000)
                            \div (Max(7000, motor_efficiency) \div 10)
        regen_power ==
            IF vd.acceleration < -20
            THEN Min(0, ((((vd.vehicle_weight \div 100) * vd.acceleration * v) \div 1000)
                            * mp.regeneration) \div 100)
            ELSE 0
        idle_power == IF vd.temperature < 1500 THEN 800 ELSE 500
    IN  Max(0, total_power + regen_power + idle_power)

\* a battery update that adds the energy used
battery_after_added(battery_level, instant_consumption, battery_capacity, elapsed_time) ==
    battery_level + (instant_consumption * elapsed_time * 10) \div (36 * battery_capacity)

\* battery drain and autonomy (lines 430-441)
battery_after(battery_level, instant_consumption, battery_capacity, elapsed_time) ==
    LET battery_percentage_used ==
            (instant_consumption * elapsed_time * 10) \div (36 * battery_capacity)
    IN  Max(0, battery_level - battery_percentage_used)

energy(vd, mp, elapsed_time) ==
    LET instant_consumption == instant_power(vd, mp)
        energy_consumption ==
            IF vd.speed > 500 THEN (instant_consumption * 1000) \div vd.speed
            ELSE 100 * mp.conso_base
        battery_level == battery_after(vd.battery_level, instant_consumption,
                                       vd.battery_capacity, elapsed_time)
        avg_consumption ==                                        \* x 1000
            mp.conso_base * (1000 + (100 * (vd.speed - 100 * mp.vitesse_moyenne))
                                        \div (100 * mp.vitesse_moyenne))
        autonomy_remaining == ((battery_level \div 100) * vd.battery_capacity * 100)
                                    \div avg_consumption
    IN  [vd EXCEPT !.instant_consumption = instant_consumption,
                   !.energy_consumption = energy_consumption,
                   !.battery_level = battery_level,
                   !.autonomy_remaining = autonomy_remaining]

\* motor temperature and motor load (lines 443-456)
thermal(vd, mp) ==
    LET temp_ambient == 2000
        temp_target == temp_ambient + (vd.motor_load * 60) \div 100
        temp_delta == ((temp_target - vd.temperature) * mp.temps_factor) \div 100
        temperature == Max(temp_ambient, Min(9000, vd.temperature + temp_delta))
        speed_load == (4000 * vd.speed) \div (100 * mp.vitesse_max)
        accel_load == (4000 * Abs(vd.acceleration)) \div mp.acceleration_max
    IN  [vd EXCEPT !.temperature = temperature,
                   !.motor_load = Min(10000, Max(0, 2000 + speed_load + accel_load))]

\* a tire pressure drift with no floor
tires_unfloored(vd, elapsed_time, d) ==
    IF d.tire_hit
    THEN LET pressure_loss == elapsed_time \div 10 + (IF d.tire_big THEN d.tire_extra ELSE 0)
         IN  [vd EXCEPT !.tire_pressure = vd.tire_pressure - pressure_loss]
    ELSE vd

\* tire pressure drift (lines 458-464)
tires(vd, elapsed_time, d) ==
    IF d.tire_hit
    THEN LET pressure_loss == elapsed_time \div 10 + (IF d.tire_big THEN d.tire_extra ELSE 0)
         IN  [vd EXCEPT !.tire_pressure = Max(1500, vd.tire_pressure - pressure_loss)]
    ELSE vd

\* _update_vehicle_state(elapsed_time)
_update_vehicle_state(s, elapsed_time, d) ==
    LET mode_params == MODE_PARAMS[s.current_mode]
        s1 == _handle_random_events(s, d)
        s2 == IF s1.current_event # NoEvent THEN _apply_event_effects(s1, d) ELSE s1
        vd3 == kinematics(s2.vehicle_data, mode_params, elapsed_time, d)
        vd4 == energy(vd3, mode_params, elapsed_time)
        vd5 == thermal(vd4, mode_params)
        vd6 == tires(vd5, elapsed_time, d)
    IN  [s2 EXCEPT !.vehicle_data = vd6]

\* _update_vehicle_state up to the speed and distance update (lines 346-393)
update_first_part(s, elapsed_time, d) ==
    LET mode_params == MODE_PARAMS[s.current_mode]
        s1 == _handle_random_events(s, d)
        s2 == IF s1.current_event # NoEvent THEN _apply_event_effects(s1, d) ELSE s1
    IN  [s2 EXCEPT !.vehicle_data = kinematics(s2.vehicle_data, mode_params, elapsed_time, d)]

\* the speed the tick has after the event effects, and the tendance_vitesse it
\* computes from it with the parameters of the mode read at line 345
tick_tendance(s, d) ==
    LET mode_params == MODE_PARAMS[s.current_mode]
        s1 == _handle_random_events(s, d)
        s2 == IF s1.current_event # NoEvent THEN _apply_event_effects(s1, d) ELSE s1
    IN  [speed |-> s2.vehicle_data.speed,
         tendance |-> tendance_vitesse(s2.vehicle_data.speed,
                                       100 * mode_params.vitesse_moyenne,
                                       mode_params.acceleration_max)]

\* the rest of _update_vehicle_state (lines 395-464); mode is the mode whose
\* parameters the tick read when it began
update_second_part(s, mode, elapsed_time, d) ==
    LET mode_params == MODE_PARAMS[mode]
        vd4 == energy(s.vehicle_data, mode_params, elapsed_time)
        vd5 == thermal(vd4, mode_params)
        vd6 == tires(vd5, elapsed_time, d)
    IN  [s EXCEPT !.vehicle_data = vd6]

\* the value _calculate_energy_consumption stores in energy_consumption
consumption_estimate(vd, mode) ==
    MODE_PARAMS[mode].conso_base * mode_factor[mode] * 10
      + (vd.speed * vd.speed) \div 10000
      + 2 * Abs(vd.acceleration)
      + Abs(vd.temperature - 2000) \div 10
      + (10000000 - vd.battery_level) \div 20000
      + vd.motor_load \div 50
      + Abs(vd.road_grade) \div 2
      + Abs(vd.wind_speed) \div 5
      + vd.road_condition

\* _calculate_energy_consumption()
_calculate_energy_consumption(s) ==
    [s EXCEPT !.vehicle_data.energy_consumption =
                  consumption_estimate(s.vehicle_data, s.current_mode)]

\* one iteration of the body of _simulation_loop up to the notification
loop_body(s, elapsed_time, d) ==
    _calculate_energy_consumption(_update_vehicle_state(s, elapsed_time, d))

-----------------------------------------------------------------------------
(* Bounds of the model *)

MaxTicks == 2          \* loop iterations / update() calls explored
MaxEventTicks == 2     \* loop iterations explored with every event kind
MaxLoopTicks == 3      \* loop iterations explored thread step by thread step
MaxThreads == 2        \* Thread objects one simulator may create
MaxHandlers == 2       \* distinct subscriber callbacks
MaxTireTicks == 10     \* loop iterations explored with tire pressure losses

Tids == 1..MaxThreads
Handlers == 1..MaxHandlers

\* Outcomes of the random calls and of the wall clock explored by a run.
\* elapsed: 0 (first iteration of a loop), 0.2 s (update_interval), 60 s (a stall)
\* noise: np.random.normal is unbounded; two far outcomes drive the clamps
EventKinds ==
    {"trafic_dense", "route_degagee", "pluie", "vent_lateral", "montee", "feu_rouge", "peage"}

DynProfile ==
    [elapsed |-> {0, 2, 600}, noise |-> {-6000, 6000}, hit |-> BOOLEAN,
     kinds |-> {"montee"},
     wind |-> {800, 1500}, grade |-> {300, 800}, resample |-> {-200, 200},
     tire_hit |-> {FALSE}, tire_extra |-> {0}]

\* as DynProfile, with time passing between any two iterations
EcoProfile == [DynProfile EXCEPT !.elapsed = {2, 600}]

\* a drive with stalls of 60 s, where any tick may lose tire pressure, by
\* the normal loss alone or with the largest extra loss (0.05 bar)
TireProfile ==
    [elapsed |-> {600}, noise |-> {0}, hit |-> {FALSE}, kinds |-> {},
     wind |-> {0}, grade |-> {0}, resample |-> {0},
     tire_hit |-> BOOLEAN, tire_extra |-> {50}]

\* the loop on schedule: update_interval elapsed, no noise, no event
LoopProfile ==
    [elapsed |-> {2}, noise |-> {0}, hit |-> {FALSE}, kinds |-> {},
     wind |-> {0}, grade |-> {0}, resample |-> {0},
     tire_hit |-> {FALSE}, tire_extra |-> {0}]

EventProfile ==
    [elapsed |-> {600}, noise |-> {-6000, 6000}, hit |-> BOOLEAN,
     kinds |-> EventKinds,
     wind |-> {800, 1500}, grade |-> {300, 800}, resample |-> {-200, 200},
     tire_hit |-> {FALSE}, tire_extra |-> {0}]

\* a long quiet drive: events start only in the first EventWindow ticks, and
\* the run lasts until the longest of them (pluie, 60 ticks) has ended
MaxLongTicks == 62
EventWindow == 2

LongProfile(n) ==
    [elapsed |-> {2}, noise |-> {0},
     hit |-> IF n < EventWindow THEN BOOLEAN ELSE {FALSE},
     kinds |-> {"pluie", "vent_lateral", "montee", "peage"},
     wind |-> {800}, grade |-> {300}, resample |-> {-200, 200},
     tire_hit |-> {FALSE}, tire_extra |-> {0}]

-----------------------------------------------------------------------------
(* RealTimeSimulator: state and operations *)

sim == [current_mode |-> current_mode, vehicle_data |-> vehicle_data,
        current_event |-> current_event, event_duration |-> event_duration]

\* the simulator value __init__ builds
\* a snapshot whose data depend on the clock
get_current_data_clocked(vd, now) ==
    [data |-> [vd EXCEPT !.total_distance = @ + now], timestamp |-> now]

InitSim == [current_mode |-> MODE_URBAIN, vehicle_data |-> InitVehicleData,
            current_event |-> NoEvent, event_duration |-> 0]

\* get_current_data(): a copy of vehicle_data plus the wall-clock timestamp
get_current_data(vd, now) == [data |-> vd, timestamp |-> now]

\* no tick in progress in a thread
NoLocals == [mode |-> "none"]

RTSInit ==
    /\ is_running = FALSE
    /\ simulation_thread = 0
    /\ thread_pc = [t \in Tids |-> "unborn"]
    /\ ctl_pc = "idle"
    /\ current_mode = MODE_URBAIN
    /\ vehicle_data = InitVehicleData
    /\ current_event = NoEvent
    /\ event_duration = 0
    /\ delivered = InitVehicleData
    /\ data_update_callbacks = << >>
    /\ invoked = << >>
    /\ ret = "None"
    /\ observed = InitVehicleData
    /\ tick_local = [t \in Tids |-> NoLocals]
    /\ twin = [sim |-> InitSim,
               first |-> get_current_data(InitVehicleData, 0),
               second |-> get_current_data(InitVehicleData, 0)]
    /\ snapshots_after_stop = -1

\* arguments tried for start(mode) and change_mode(new_mode): the four keys,
\* None and a key that is not in MODE_PARAMS
ModeArgs == Modes \cup {"None", "offroad"}

\* start(mode)
start(mode) ==
    /\ engine = "rts"
    /\ ctl_pc = "idle"
    /\ IF mode # "None" /\ mode \in Modes
       THEN /\ current_mode' = mode
            /\ vehicle_data' = [vehicle_data EXCEPT !.simulation_mode = mode]
       ELSE UNCHANGED <<current_mode, vehicle_data>>
    /\ IF is_running
       THEN UNCHANGED <<is_running, simulation_thread, thread_pc>>
       ELSE /\ \E t \in Tids : thread_pc[t] = "unborn"
            /\ LET t == CHOOSE u \in Tids :
                            thread_pc[u] = "unborn"
                            /\ \A w \in Tids : thread_pc[w] = "unborn" => u <= w
               IN  /\ is_running' = TRUE
                   /\ simulation_thread' = t
                   /\ thread_pc' = [thread_pc EXCEPT ![t] = "loop"]
    /\ snapshots_after_stop' = -1
    /\ UNCHANGED <<data_update_callbacks, invoked, ret, observed, tick_local, twin>>
    /\ UNCHANGED <<notRTS, ticks, ctl_pc, current_event, event_duration, delivered>>

\* start(mode), counted in starts
CountedStart(mode) == start(mode) /\ starts' = Min(2, starts + 1)

\* start(mode) where the calls are not counted
PlainStart(mode) == start(mode) /\ UNCHANGED starts

\* a membership test that knows no key
mode_known_never(new_mode) == FALSE

\* a membership test that accepts every key
mode_known_always(new_mode) == TRUE

\* new_mode in self.MODE_PARAMS (line 303)
mode_known(new_mode) == new_mode \in Modes

\* change_mode(new_mode); ret is the value returned
change_mode(new_mode) ==
    /\ engine = "rts"
    /\ ctl_pc = "idle"
    /\ IF mode_known(new_mode)
       THEN /\ current_mode' = new_mode
            /\ vehicle_data' = [vehicle_data EXCEPT !.simulation_mode = new_mode]
            /\ ret' = "True"
       ELSE /\ UNCHANGED <<current_mode, vehicle_data>>
            /\ ret' = "False"
    /\ UNCHANGED <<data_update_callbacks, invoked, observed, tick_local, twin,
                   snapshots_after_stop>>
    /\ UNCHANGED <<notRTS, starts, ticks, is_running, simulation_thread, thread_pc, ctl_pc,
                   current_event, event_duration, delivered>>

\* The draws one tick consumes, given the simulator value before the tick:
\* a random call that the tick does not reach has a single dummy outcome.
\* d.hit is the outcome the probability trial has or would have: it is
\* enumerated whether or not an event is active.
Candidates(mode, P) ==
    {i \in 1..Len(events(mode)) : events(mode)[i].name \in P.kinds}

Draws(s, P) ==
    UNION { UNION { UNION {
        LET fresh == hit /\ s.current_event = NoEvent
            ev == IF fresh THEN events(s.current_mode)[idx] ELSE s.current_event
            dur == IF fresh THEN ev.duration ELSE s.event_duration
            ends == dur - 1 <= 0
        IN  { [noise |-> n, hit |-> hit, idx |-> idx, wind |-> w, grade |-> g,
               rwind |-> rw, rgrade |-> rg, tire_hit |-> th, tire_big |-> tb,
               tire_extra |-> te] :
                  n \in P.noise,
                  w \in IF ev.name = "vent_lateral" THEN P.wind ELSE {0},
                  g \in IF ev.name = "montee" THEN P.grade ELSE {0},
                  rw \in IF ev.name = "vent_lateral" /\ ends THEN P.resample ELSE {0},
                  rg \in IF ev.name = "montee" /\ ends THEN P.resample ELSE {0},
                  tb \in IF th THEN BOOLEAN ELSE {FALSE},
                  te \in IF th THEN P.tire_extra ELSE {0} }
        : idx \in IF hit THEN Candidates(s.current_mode, P) ELSE {1} }
        : hit \in IF Candidates(s.current_mode, P) # {} THEN P.hit ELSE {FALSE} }
        : th \in P.tire_hit }

\* the handlers held by a callback list
Registered(callbacks) == {callbacks[i] : i \in 1..Len(callbacks)}

\* a registration that appends whatever the list holds
on_data_update_append(callbacks, callback) == Append(callbacks, callback)

\* on_data_update(callback): the new callback list
on_data_update(callbacks, callback) ==
    IF callback \in Registered(callbacks) THEN callbacks ELSE Append(callbacks, callback)

\* a notification that the first raising handler ends
RECURSIVE notify_until_raise(_, _, _)
notify_until_raise(callbacks, raises, i) ==
    IF i > Len(callbacks) THEN << >>
    ELSE IF callbacks[i] \in raises
    THEN << [handler |-> callbacks[i], raised |-> TRUE] >>
    ELSE << [handler |-> callbacks[i], raised |-> FALSE] >>
            \o notify_until_raise(callbacks, raises, i + 1)

\* the for loop of _notify_callbacks from position i on: each callback is
\* called inside its own try/except Exception; raises are the handlers that
\* raise this time.  The result lists the calls made and how each ended.
RECURSIVE notify_from(_, _, _)
notify_from(callbacks, raises, i) ==
    IF i > Len(callbacks) THEN << >>
    ELSE << [handler |-> callbacks[i], raised |-> callbacks[i] \in raises] >>
            \o notify_from(callbacks, raises, i + 1)

\* _notify_callbacks()
_notify_callbacks(callbacks, raises) == notify_from(callbacks, raises, 1)

\* the handlers that may raise in one notification
RaiseSets(callbacks) == SUBSET Registered(callbacks)

\* readings of the wall clock, for the timestamp of a snapshot
Clock == {0, 1}

\* One whole iteration of _simulation_loop, run without interruption, with
\* the elapsed time, the random draws and the raising handlers given:
\* _update_vehicle_state, _calculate_energy_consumption, _notify_callbacks
IterateWith(t, bound, elapsed, d, raises) ==
    /\ engine = "rts"
    /\ ctl_pc = "idle"
    /\ thread_pc[t] = "loop"
    /\ is_running
    /\ ticks < bound
    /\ LET s == loop_body(sim, elapsed, d)
       IN  /\ vehicle_data' = s.vehicle_data
           /\ current_event' = s.current_event
           /\ event_duration' = s.event_duration
           /\ delivered' = s.vehicle_data
    /\ invoked' = _notify_callbacks(data_update_callbacks, raises)
    /\ ticks' = ticks + 1
    /\ UNCHANGED <<notRTS, starts, is_running, simulation_thread, thread_pc, ctl_pc,
                   current_mode, data_update_callbacks, ret, observed, tick_local,
                   snapshots_after_stop>>

Iterate(t, P, bound) ==
    /\ \E elapsed \in P.elapsed : \E d \in Draws(sim, P) :
       \E raises \in RaiseSets(data_update_callbacks) :
          IterateWith(t, bound, elapsed, d, raises)
    /\ UNCHANGED twin

\* an exception escapes the body of the while loop: the except clause of
\* _simulation_loop logs it and clears is_running, and the thread ends
\* (lines 339-341); the exception is taken to be raised before the tick wrote
IterateRaises(t) ==
    /\ engine = "rts"
    /\ ctl_pc = "idle"
    /\ thread_pc[t] = "loop"
    /\ is_running
    /\ is_running' = FALSE
    /\ thread_pc' = [thread_pc EXCEPT ![t] = "done"]
    /\ UNCHANGED <<notRTS, obsVars, starts, ticks, simulation_thread, ctl_pc, current_mode,
                   vehicle_data, current_event, event_duration, delivered>>

\* the same iteration in two runs at once: the second run gets the same
\* elapsed time and the same draws, and each run reads its own wall clock
TwinIterate(t, P, bound) ==
    \E elapsed \in P.elapsed : \E d \in Draws(sim, P) :
    \E raises \in RaiseSets(data_update_callbacks) :
       /\ IterateWith(t, bound, elapsed, d, raises)
       /\ \E now1 \in Clock : \E now2 \in Clock :
             LET \* the second run was given the same start(mode) calls
                 same == [twin.sim EXCEPT
                             !.current_mode = current_mode,
                             !.vehicle_data.simulation_mode = vehicle_data.simulation_mode]
                 s2 == loop_body(same, elapsed, d)
             IN  twin' = [sim |-> s2,
                          first |-> get_current_data(vehicle_data', now1),
                          second |-> get_current_data(s2.vehicle_data, now2)]

\* on_data_update(callback), called from any thread
OnDataUpdate(callback) ==
    /\ engine = "rts"
    /\ data_update_callbacks' = on_data_update(data_update_callbacks, callback)
    /\ UNCHANGED <<notRTS, rtsVars, starts, ticks, invoked, ret, observed, tick_local, twin,
                   snapshots_after_stop>>

\* ---- the loop thread and stop(), step by step ----
\* positions of a loop thread: "unborn", "loop" (at the while test), "update"
\* (before _update_vehicle_state), "notify" (inside _notify_callbacks),
\* "sleep", "done"

\* while self.is_running
LoopCheck(t) ==
    /\ engine = "rts"
    /\ thread_pc[t] = "loop"
    /\ thread_pc' = [thread_pc EXCEPT ![t] = IF is_running THEN "update" ELSE "done"]
    /\ UNCHANGED <<notRTS, obsVars, starts, ticks, is_running, simulation_thread, ctl_pc, current_mode,
                   vehicle_data, current_event, event_duration, delivered>>

\* _update_vehicle_state(elapsed); _calculate_energy_consumption()
LoopUpdate(t, P, bound) ==
    /\ engine = "rts"
    /\ thread_pc[t] = "update"
    /\ ticks < bound
    /\ \E elapsed \in P.elapsed : \E d \in Draws(sim, P) :
          LET s == loop_body(sim, elapsed, d)
          IN  /\ vehicle_data' = s.vehicle_data
              /\ current_event' = s.current_event
              /\ event_duration' = s.event_duration
    /\ ticks' = ticks + 1
    /\ thread_pc' = [thread_pc EXCEPT ![t] = "notify"]
    /\ UNCHANGED <<notRTS, obsVars, starts, is_running, simulation_thread, ctl_pc, current_mode,
                   delivered>>

\* _notify_callbacks(): the snapshot is a copy of vehicle_data taken now; every
\* callback is called with it
LoopNotify(t) ==
    /\ engine = "rts"
    /\ thread_pc[t] = "notify"
    /\ delivered' = vehicle_data
    /\ \E raises \in RaiseSets(data_update_callbacks) :
          invoked' = _notify_callbacks(data_update_callbacks, raises)
    /\ snapshots_after_stop' =
          IF snapshots_after_stop < 0 THEN -1 ELSE Min(2, snapshots_after_stop + 1)
    /\ thread_pc' = [thread_pc EXCEPT ![t] = "sleep"]
    /\ UNCHANGED <<notRTS, starts, ticks, is_running, simulation_thread, ctl_pc, current_mode,
                   vehicle_data, current_event, event_duration,
                   data_update_callbacks, ret, observed, tick_local, twin>>

\* ---- a tick in two steps, and a reader in another thread ----
\* The tick writes the fields of vehicle_data one after the other and holds no
\* lock: "midtick" is a thread between the speed update and the energy update.

TickBegin(t, P, bound) ==
    /\ engine = "rts"
    /\ thread_pc[t] = "update"
    /\ ticks < bound
    /\ \E elapsed \in P.elapsed : \E d \in Draws(sim, P) :
          LET s == update_first_part(sim, elapsed, d)
          IN  /\ vehicle_data' = s.vehicle_data
              /\ current_event' = s.current_event
              /\ event_duration' = s.event_duration
              /\ tick_local' = [tick_local EXCEPT
                                   ![t] = [mode |-> current_mode, elapsed |-> elapsed, d |-> d]]
    /\ ticks' = ticks + 1
    /\ thread_pc' = [thread_pc EXCEPT ![t] = "midtick"]
    /\ UNCHANGED <<notRTS, starts, is_running, simulation_thread, ctl_pc, current_mode,
                   delivered, data_update_callbacks, invoked, ret, observed, twin,
                   snapshots_after_stop>>

TickEnd(t) ==
    /\ engine = "rts"
    /\ thread_pc[t] = "midtick"
    /\ LET l == tick_local[t]
           s == _calculate_energy_consumption(
                    update_second_part(sim, l.mode, l.elapsed, l.d))
       IN  vehicle_data' = s.vehicle_data
    /\ tick_local' = [tick_local EXCEPT ![t] = NoLocals]
    /\ thread_pc' = [thread_pc EXCEPT ![t] = "notify"]
    /\ UNCHANGED <<notRTS, starts, ticks, is_running, simulation_thread, ctl_pc, current_mode,
                   current_event, event_duration, delivered,
                   data_update_callbacks, invoked, ret, observed, twin,
                   snapshots_after_stop>>

\* get_current_data() called from a thread other than the loop thread
GetCurrentData ==
    /\ engine = "rts"
    /\ observed' = get_current_data(vehicle_data, 0).data
    /\ UNCHANGED <<notRTS, rtsVars, starts, ticks, data_update_callbacks, invoked, ret,
                   tick_local, twin, snapshots_after_stop>>

\* time.sleep(sleep_time), then back to the while test
LoopSleep(t) ==
    /\ engine = "rts"
    /\ thread_pc[t] = "sleep"
    /\ thread_pc' = [thread_pc EXCEPT ![t] = "loop"]
    /\ UNCHANGED <<notRTS, obsVars, starts, ticks, is_running, simulation_thread, ctl_pc, current_mode,
                   vehicle_data, current_event, event_duration, delivered>>

\* stop(): clear the flag, then join the thread last created
stop ==
    /\ engine = "rts"
    /\ ctl_pc = "idle"
    /\ is_running' = FALSE
    /\ ctl_pc' = IF simulation_thread # 0 THEN "join" ELSE "idle"
    /\ starts' = 0
    /\ snapshots_after_stop' = 0
    /\ UNCHANGED <<data_update_callbacks, invoked, ret, observed, tick_local, twin>>
    /\ UNCHANGED <<notRTS, ticks, simulation_thread, thread_pc, current_mode,
                   vehicle_data, current_event, event_duration, delivered>>

\* join(timeout=1.0) returns because the thread has ended
JoinReturn ==
    /\ engine = "rts"
    /\ ctl_pc = "join"
    /\ thread_pc[simulation_thread] = "done"
    /\ ctl_pc' = "idle"
    /\ UNCHANGED <<notRTS, obsVars, starts, ticks, is_running, simulation_thread, thread_pc,
                   current_mode, vehicle_data, current_event, event_duration, delivered>>

\* join(timeout=1.0) times out: the thread is still inside a tick or inside a
\* subscriber callback (a sleep lasts at most update_interval = 0.2 s)
JoinTimeout ==
    /\ engine = "rts"
    /\ ctl_pc = "join"
    /\ thread_pc[simulation_thread] \in {"update", "notify"}
    /\ ctl_pc' = "idle"
    /\ UNCHANGED <<notRTS, obsVars, starts, ticks, is_running, simulation_thread, thread_pc,
                   current_mode, vehicle_data, current_event, event_duration, delivered>>

-----------------------------------------------------------------------------
(* physics_engine.VehiclePhysicsSimulation                                   *)
(* Units: velocity cm/s, acceleration cm/s^2, position and total_distance   *)
(* cm, forces N, temperatures 0.01 degC, battery_level 0.00001 %, dt 0.1 s, *)
(* controls in tenths.  The vehicle moves along x: the velocity is never     *)
(* rotated by the orientation, which is left out with the wheel rotation    *)
(* angles.  controls holds the values update() works with after clipping.   *)

PEInitState ==
    [position |-> 0, velocity |-> 0, acceleration |-> 0,
     battery_level |-> 10000000, motor_temperature |-> 2000, brake_temperature |-> 2000,
     last_update_time |-> "None", total_distance |-> 0,
     controls |-> [throttle |-> 0, brake |-> 0, steering |-> 0, gear |-> 0]]

\* a clip that lets every value through
clip_identity(x, lo, hi) == x

\* np.clip
clip(x, lo, hi) == Max(lo, Min(hi, x))

\* first-order approach of a temperature to its target (lines 155 and 163):
\* T += (target - T) * rate * dt, with rate in tenths per second
relax(temperature, target, rate, dt) ==
    temperature + ((target - temperature) * rate * dt) \div 100

\* update(controls) once last_update_time is set (lines 72-166)
pe_step(st, controls, dt) ==
    LET throttle == clip(controls.throttle, -10, 10)
        brake == clip(controls.brake, 0, 10)
        steering == clip(controls.steering, -10, 10)
        gear == clip(controls.gear, -1, 1)
        max_engine_force == 20000
        engine_force == (max_engine_force * throttle * gear) \div 10
        max_brake_force == 30000
        brake_force == (max_brake_force * brake) \div 10
        speed == Abs(st.velocity)
        drag_force == (((speed * speed) \div 10000) * 4316) \div 10000
        rolling_force == (1500 * 981 * 15) \div 100000
        sign == IF speed > 0 THEN 1 ELSE 0
        total_force == engine_force - brake_force - drag_force - rolling_force * sign
        acceleration == (total_force * 100) \div 1500
        new_velocity == st.velocity + (acceleration * dt) \div 10
        power_consumption == (Abs(engine_force) * speed) \div 1000   \* x 100 W
        battery_drain == (power_consumption * dt) \div 36
        target_motor_temp == 2000 + (10000 * Abs(engine_force)) \div max_engine_force
        target_brake_temp == 2000 + (78 * brake * speed) \div 100
    IN  [st EXCEPT
            !.controls = [throttle |-> throttle, brake |-> brake,
                          steering |-> steering, gear |-> gear],
            !.acceleration = acceleration,
            !.velocity = new_velocity,
            !.position = st.position + (new_velocity * dt) \div 10,
            !.battery_level = Max(0, st.battery_level - battery_drain),
            !.motor_temperature = relax(st.motor_temperature, target_motor_temp, 1, dt),
            !.brake_temperature = relax(st.brake_temperature, target_brake_temp, 2, dt),
            !.total_distance = st.total_distance + (speed * dt) \div 10]

\* update(controls): the first call only records the time
pe_update(st, controls, dt) ==
    IF st.last_update_time = "None"
    THEN [st EXCEPT !.last_update_time = "set"]
    ELSE pe_step(st, controls, dt)

\* control dictionaries tried; throttle 15 and -15 and steering -20 are
\* outside the valid ranges
PEControls ==
    [throttle : {-15, 0, 10, 15}, brake : {0, 10}, steering : {-20, 0}, gear : {1}]

\* wall-clock time between two update() calls: 1 s and 12 s
PEDt == {10, 120}

VelocityCap == 40000     \* |velocity| beyond which the model stops stepping

PEUpdate ==
    /\ engine = "pe"
    /\ ticks < MaxTicks + 1
    /\ Abs(pe.velocity) <= VelocityCap
    /\ \E controls \in PEControls : \E dt \in PEDt : pe' = pe_update(pe, controls, dt)
    /\ ticks' = ticks + 1
    /\ UNCHANGED <<engine, assistant, predictor, app, starts, rtsVars, obsVars, zoe, vs>>

-----------------------------------------------------------------------------
(* vehicle_simulation.VehiclePhysicsSimulation (the Renault ZOE model)       *)
(* Units: velocity cm/s, acceleration cm/s^2, position and total_distance   *)
(* cm, forces N, powers W, temperatures 0.01 degC, battery_level 0.00001 %, *)
(* total_energy_consumed mWh, dt 0.01 s, controls in tenths.  Vectors are   *)
(* <<x, y>>; the z components stay 0.                                       *)

norm(v) == Isqrt(v[1] * v[1] + v[2] * v[2])

ZoeInitState ==
    [position |-> <<0, 0>>, velocity |-> <<0, 0>>, acceleration |-> <<0, 0>>,
     orientation |-> <<0, 0, 0>>,
     battery_level |-> 10000000, motor_temperature |-> 2500, brake_temperature |-> 2000,
     total_distance |-> 0, total_energy_consumed |-> 0,
     throttle |-> 0, brake |-> 0, steering |-> 0,
     last_update_time |-> "None", history |-> << >>]

max_speed == 3889                 \* 140 / 3.6 m/s
ambient_temperature == 2000

\* a reset that forgets the energy counter
zoe_reset_partial(st) ==
    [st EXCEPT
        !.position = <<0, 0>>, !.velocity = <<0, 0>>, !.acceleration = <<0, 0>>,
        !.orientation = <<0, 0, 0>>,
        !.battery_level = 10000000,
        !.motor_temperature = 2500, !.brake_temperature = 2000,
        !.total_distance = 0,
        !.throttle = 0, !.brake = 0, !.steering = 0,
        !.last_update_time = "None",
        !.history = << >>]

\* reset(): the fields it assigns, one by one
zoe_reset(st) ==
    [st EXCEPT
        !.position = <<0, 0>>, !.velocity = <<0, 0>>, !.acceleration = <<0, 0>>,
        !.orientation = <<0, 0, 0>>,
        !.battery_level = 10000000,
        !.motor_temperature = 2500, !.brake_temperature = 2000,
        !.total_distance = 0, !.total_energy_consumed = 0,
        !.throttle = 0, !.brake = 0, !.steering = 0,
        !.last_update_time = "None",
        !.history = << >>]

\* update_controls(throttle, brake, steering); an argument is <<>> for None
\* (the control is left alone) or <<x>> for the number x
update_controls(st, throttle, brake, steering) ==
    [st EXCEPT
        !.throttle = IF throttle = <<>> THEN @ ELSE Max(0, Min(10, throttle[1])),
        !.brake = IF brake = <<>> THEN @ ELSE Max(0, Min(10, brake[1])),
        !.steering = IF steering = <<>> THEN @ ELSE Max(-10, Min(10, steering[1]))]

\* <<cos, sin>> of steering * pi / 4 in 1/10000, for the steering values explored
yaw_rotation(steering) ==
    IF steering = 0 THEN <<10000, 0>>
    ELSE IF steering > 0 THEN <<7071, 7071>> ELSE <<7071, -7071>>

\* max_power * (battery_level / 100) * throttle, in W
power_used(st) == (8 * (st.battery_level \div 1000) * st.throttle) \div 10

\* mass * 9.81 * brake_efficiency * brake
zoe_brake_force(st) == (11772 * st.brake) \div 10

_update_physics(st, dt) ==
    LET speed == norm(st.velocity)
        traction_force ==
            IF st.throttle > 0 /\ st.battery_level > 0
            THEN IF speed > 50 THEN (power_used(st) * 100) \div speed
                 ELSE (power_used(st) * 100) \div 50
            ELSE 0
        brake_force == IF st.brake > 0 THEN zoe_brake_force(st) ELSE 0
        drag_force == (((speed * speed) \div 10000) * 4614) \div 10000
        rolling_force == 191
        force_direction == yaw_rotation(st.steering)
        \* drag_direction and rolling_direction are -velocity / speed, and the
        \* two forces are subtracted along them
        component(i) ==
            (traction_force * force_direction[i]) \div 10000
            - (brake_force * st.velocity[i]) \div Max(10, speed)
            + (IF speed > 0 THEN (drag_force * st.velocity[i]) \div speed ELSE 0)
            + (IF speed > 0 THEN (rolling_force * st.velocity[i]) \div speed ELSE 0)
        acceleration == <<(component(1) * 100) \div 1500, (component(2) * 100) \div 1500>>
        v1 == <<st.velocity[1] + (acceleration[1] * dt) \div 100,
                st.velocity[2] + (acceleration[2] * dt) \div 100>>
        current_speed == norm(v1)
        v2 == IF current_speed > max_speed
              THEN <<(v1[1] * max_speed) \div current_speed, (v1[2] * max_speed) \div current_speed>>
              ELSE v1
        v3 == IF current_speed < 10 THEN <<0, 0>> ELSE v2
    IN  [st EXCEPT
            !.acceleration = acceleration,
            !.velocity = v3,
            !.position = <<st.position[1] + (v3[1] * dt) \div 100,
                           st.position[2] + (v3[2] * dt) \div 100>>,
            !.total_distance = st.total_distance + (current_speed * dt) \div 100]

\* regenerative braking power in W (lines 372-376)
regen_power(st) ==
    LET speed == norm(st.velocity)
    IN  IF st.brake > 0 /\ speed > 100
        THEN Min((45 * speed * st.brake) \div 100, 24000)
        ELSE 0

\* total_power of _update_energy in W (line 383)
total_power(st) ==
    LET traction_power == IF st.throttle > 0 /\ norm(st.velocity) > 0 THEN power_used(st) ELSE 0
    IN  traction_power + 1200 + 500 - regen_power(st)

\* a battery update without the limits
zoe_battery_unclamped(battery_level, energy_percentage) ==
    battery_level - energy_percentage

\* the new battery_level (line 402)
zoe_battery(battery_level, energy_percentage) ==
    Max(0, Min(10000000, battery_level - energy_percentage))

_update_energy(st, dt) ==
    LET effective_power ==
            IF total_power(st) > 0 THEN (total_power(st) * 100) \div 85
            ELSE (total_power(st) * 85) \div 100
        energy_consumed == (effective_power * dt) \div 360
        energy_percentage == (effective_power * dt) \div 1872
    IN  [st EXCEPT
            !.total_energy_consumed = IF energy_consumed > 0 THEN @ + energy_consumed ELSE @,
            !.battery_level = zoe_battery(st.battery_level, energy_percentage)]

_update_thermal(st, dt) ==
    LET speed == norm(st.velocity)
        motor_heating == (40 * st.throttle * dt) \div 100
        motor_cooling == ((ambient_temperature - st.motor_temperature) * 2 * dt) \div 10000
        brake_heating == (((zoe_brake_force(st) * speed) \div 100) * dt) \div 100
        brake_cooling == ((ambient_temperature - st.brake_temperature) * 5 * dt) \div 10000
    IN  [st EXCEPT
            !.motor_temperature = Max(ambient_temperature, @ + motor_heating + motor_cooling),
            !.brake_temperature = Max(ambient_temperature, @ + brake_heating + brake_cooling)]

\* get_current_state(): the reported fields (its own 'time' reading is left out)
get_current_state(st) ==
    [position |-> st.position, velocity |-> st.velocity, speed |-> norm(st.velocity),
     acceleration |-> st.acceleration, orientation |-> st.orientation,
     battery_level |-> st.battery_level,
     motor_temperature |-> st.motor_temperature,
     brake_temperature |-> st.brake_temperature,
     total_distance |-> st.total_distance,
     total_energy_consumed |-> st.total_energy_consumed,
     throttle |-> st.throttle, brake |-> st.brake, steering |-> st.steering]

history_maxlen == 600

\* an append that refuses the new entry when the history is full
history_append_keep_oldest(history, entry) ==
    IF Len(history) >= history_maxlen THEN history ELSE Append(history, entry)

\* deque(maxlen=600).append(entry): a full deque drops its oldest entry
history_append(history, entry) ==
    IF Len(history) >= history_maxlen THEN Append(Tail(history), entry)
    ELSE Append(history, entry)

\* update(dt): physics, energy, thermal, then one history entry; current_time
\* is the reading of time.time() the call takes
update(st, dt, current_time) ==
    LET s3 == _update_thermal(_update_energy(_update_physics(st, dt), dt), dt)
    IN  [s3 EXCEPT !.last_update_time = "set",
                   !.history = history_append(@, [t |-> current_time,
                                                  state |-> get_current_state(s3)])]

\* get_history(start_time, end_time); an argument is <<>> for None
get_history(history, start_time, end_time) ==
    IF history = << >> THEN << >>
    ELSE LET from_time == IF start_time = << >> THEN history[1].t ELSE start_time[1]
             to_time == IF end_time = << >> THEN history[Len(history)].t ELSE end_time[1]
             filtered_history ==
                 SelectSeq(history, LAMBDA e : from_time <= e.t /\ e.t <= to_time)
         IN  [i \in 1..Len(filtered_history) |-> filtered_history[i].state]

\* control arguments tried: None, one below and one above the valid range
ZoeThrottleArgs == {<<>>, <<-5>>, <<15>>}
ZoeBrakeArgs == {<<>>, <<0>>, <<10>>}
ZoeSteeringArgs == {<<>>, <<-25>>, <<10>>}

\* time steps tried: the default first frame (1/30 s), 1 s and 2 s
ZoeDt == {3, 100, 200}

ZoeUpdateControls ==
    /\ engine = "zoe"
    /\ \E throttle \in ZoeThrottleArgs : \E brake \in ZoeBrakeArgs : \E steering \in ZoeSteeringArgs :
          zoe' = update_controls(zoe, throttle, brake, steering)
    /\ UNCHANGED <<engine, assistant, predictor, app, starts, ticks, rtsVars, obsVars, pe, vs>>

\* update(dt); the wall clock reads the number of the call
ZoeUpdate ==
    /\ engine = "zoe"
    /\ ticks < MaxTicks
    /\ \E dt \in ZoeDt : zoe' = update(zoe, dt, ticks + 1)
    /\ ticks' = ticks + 1
    /\ UNCHANGED <<engine, assistant, predictor, app, starts, rtsVars, obsVars, pe, vs>>

MaxHistoryTicks == 602    \* update() calls of the long recording

\* update(dt) in a long recording: any step at first, then one update a second
ZoeRecord ==
    /\ engine = "zoe"
    /\ ticks < MaxHistoryTicks
    /\ \E dt \in IF ticks < MaxTicks THEN ZoeDt ELSE {100} :
          zoe' = update(zoe, dt, ticks + 1)
    /\ ticks' = ticks + 1
    /\ UNCHANGED <<engine, assistant, predictor, app, starts, rtsVars, obsVars, pe, vs>>

ZoeReset ==
    /\ engine = "zoe"
    /\ zoe' = zoe_reset(zoe)
    /\ UNCHANGED <<engine, assistant, predictor, app, starts, ticks, rtsVars, obsVars, pe, vs>>

-----------------------------------------------------------------------------
(* vehicle_simulation.VehicleSimulation                                      *)
(* Units as for RealTimeSimulator.  One loop iteration is one step.          *)

VSInitState ==
    [current_speed |-> 0, current_acceleration |-> 0, battery_level |-> 10000000,
     temperature |-> 2500, motor_load |-> 0, tire_pressure |-> 2400,
     vehicle_weight |-> 1800, road_grade |-> 0, road_condition |-> 0, wind_speed |-> 0,
     is_running |-> FALSE,
     loop_alive |-> FALSE]       \* the thread of _simulation_loop exists and has not ended

\* _update_vehicle_state() with the random draws d
vs_update_vehicle_state(st, d) ==
    LET current_speed == Max(0, Min(13000, st.current_speed + d.speed_change))
        current_acceleration == (d.speed_change * 10) \div 36
        battery_drain == 1000 + current_speed \div 5
    IN  [st EXCEPT
            !.current_speed = current_speed,
            !.current_acceleration = current_acceleration,
            !.battery_level = Max(0, st.battery_level - battery_drain),
            !.temperature = st.temperature + d.temperature,
            !.motor_load = Min(10000, Max(0, 2000 + (current_speed * 60) \div 130
                                                + Abs(current_acceleration) * 20)),
            !.tire_pressure = Max(1800, Min(2800, st.tire_pressure + d.tire)),
            !.wind_speed = Max(-1000, Min(1000, st.wind_speed + d.wind)),
            !.road_grade = Max(-800, Min(800, st.road_grade + d.grade)),
            !.road_condition = IF d.road_hit THEN d.road ELSE @]

\* np.random.normal is unbounded: tire -700 and 700 are far outcomes that
\* reach the limits of tire_pressure in one step
VSDraws ==
    [speed_change : {-300, 300}, temperature : {-20, 20}, tire : {-700, -10, 10, 700},
     wind : {50}, grade : {-10}, road_hit : BOOLEAN, road : {50}]

\* start(): nothing when is_running is set, else the flag and a new thread
VSStart ==
    /\ engine = "vs"
    /\ vs' = IF vs.is_running THEN vs
             ELSE [vs EXCEPT !.is_running = TRUE, !.loop_alive = TRUE]
    /\ UNCHANGED <<engine, assistant, predictor, app, starts, ticks, rtsVars, obsVars, pe, zoe>>

\* stop(): the flag is cleared and the loop ends at its next while test
VSStop ==
    /\ engine = "vs"
    /\ vs' = [vs EXCEPT !.is_running = FALSE, !.loop_alive = FALSE]
    /\ UNCHANGED <<engine, assistant, predictor, app, starts, ticks, rtsVars, obsVars, pe, zoe>>

VSTick ==
    /\ engine = "vs"
    /\ vs.is_running
    /\ vs.loop_alive
    /\ ticks < MaxTicks
    /\ \E d \in VSDraws : vs' = vs_update_vehicle_state(vs, d)
    /\ ticks' = ticks + 1
    /\ UNCHANGED <<engine, assistant, predictor, app, starts, rtsVars, obsVars, pe, zoe>>

\* an exception escapes _update_vehicle_state or _notify_callbacks: the loop
\* (lines 58-72) has no try, so the thread ends and nothing else is written
VSRaise ==
    /\ engine = "vs"
    /\ vs.is_running
    /\ vs.loop_alive
    /\ vs' = [vs EXCEPT !.loop_alive = FALSE]
    /\ UNCHANGED <<engine, assistant, predictor, app, starts, ticks, rtsVars, obsVars, pe, zoe>>

-----------------------------------------------------------------------------
(* models.assistant.Assistant                                                *)
(* A snapshot is a vehicle_data record in the units of RealTimeSimulator.   *)
(* Scores are in 0.01 point until the final rounding, trends in 0.01.       *)

\* optimal_params (lines 18-47): speed and temperature ranges x100,
\* acceleration_max x100, tire pressure range x1000
optimal_params ==
    MODE_URBAIN :> [speed_range |-> <<2000, 4000>>, acceleration_max |-> 150,
                    temperature_range |-> <<2000, 4000>>,
                    tire_pressure_range |-> <<2200, 2600>>]
 @@ MODE_SPORT :> [speed_range |-> <<5000, 12000>>, acceleration_max |-> 300,
                   temperature_range |-> <<3000, 7000>>,
                   tire_pressure_range |-> <<2400, 2800>>]
 @@ MODE_AUTOROUTE :> [speed_range |-> <<9000, 12000>>, acceleration_max |-> 120,
                       temperature_range |-> <<2500, 5500>>,
                       tire_pressure_range |-> <<2300, 2700>>]
 @@ MODE_ECO :> [speed_range |-> <<4000, 7000>>, acceleration_max |-> 80,
                 temperature_range |-> <<2000, 3500>>,
                 tire_pressure_range |-> <<2100, 2500>>]

\* self.optimal_params.get(mode, self.optimal_params['urbain'])
optimal_for(mode) ==
    IF mode \in DOMAIN optimal_params THEN optimal_params[mode]
    ELSE optimal_params[MODE_URBAIN]

max_history_size == 100

\* the if/elif chain on the mode in _calculate_efficiency_score (kWh/100km);
\* the last branch takes every key that is none of the three tested
reference_consumption(mode) ==
    IF mode = MODE_URBAIN THEN 16
    ELSE IF mode = MODE_AUTOROUTE THEN 21
    ELSE IF mode = MODE_SPORT THEN 25
    ELSE 13

\* Assistant.__init__; result is what the last analyze_data call returned
AssistantInit ==
    [data_history |-> << >>,
     trends |-> [energy_consumption |-> 0, temperature |-> 0, battery_drain |-> 0],
     result |-> [efficiency_score |-> 0, anomalies |-> << >>, recommendations |-> << >>]]

\* _calculate_efficiency_score(data)
_calculate_efficiency_score(data) ==
    LET mode == data.simulation_mode
        optimal == optimal_for(mode)
        speed == data.speed
        speed_min == optimal.speed_range[1]
        speed_max == optimal.speed_range[2]
        speed_score ==
            IF speed < speed_min THEN 7000 + (3000 * speed) \div speed_min
            ELSE IF speed > speed_max
            THEN Max(0, 7000 - (7000 * (speed - speed_max)) \div speed_max)
            ELSE LET speed_relative == (1000 * (speed - speed_min)) \div (speed_max - speed_min)
                 IN  9000 + 1000 - (1000 * Abs(speed_relative - 600)) \div 600
        acceleration == Abs(data.acceleration)
        max_accel == optimal.acceleration_max
        accel_score ==
            IF acceleration <= max_accel THEN 10000 - (5000 * acceleration) \div max_accel
            ELSE Max(0, 10000 - (5000 * acceleration) \div max_accel)
        temp == data.temperature
        min_temp == optimal.temperature_range[1]
        max_temp == optimal.temperature_range[2]
        temp_score ==
            IF temp < min_temp THEN 7000 + (3000 * temp) \div min_temp
            ELSE IF temp > max_temp
            THEN Max(0, 7000 - (7000 * (temp - max_temp)) \div max_temp)
            ELSE 10000
        pressure == data.tire_pressure
        min_pressure == optimal.tire_pressure_range[1]
        max_pressure == optimal.tire_pressure_range[2]
        pressure_score ==
            IF pressure < min_pressure THEN 6000 + (4000 * pressure) \div min_pressure
            ELSE IF pressure > max_pressure
            THEN 10000 - (4000 * (pressure - max_pressure)) \div (max_pressure - min_pressure)
            ELSE 10000
        consumption_ratio == (10 * data.energy_consumption) \div reference_consumption(mode)
        consumption_score ==
            IF consumption_ratio <= 1000 THEN 10000 - (25 * consumption_ratio) \div 10
            ELSE Max(0, 15000 - (75 * consumption_ratio) \div 10)
        weighted == (25 * speed_score + 20 * accel_score + 15 * temp_score
                       + 15 * pressure_score + 25 * consumption_score) \div 100
        efficiency_score ==
            IF mode = MODE_ECO THEN Min(10000, (weighted * 11) \div 10)
            ELSE IF mode = MODE_SPORT THEN (weighted * 85) \div 100
            ELSE weighted
    IN  (Max(0, Min(10000, efficiency_score)) + 50) \div 100

\* _detect_anomalies(data), which also reads self.trends and len(self.data_history)
_detect_anomalies(data, trends, history_len) ==
    LET optimal == optimal_for(data.simulation_mode)
        temperature == data.temperature
        max_temp == optimal.temperature_range[2]
        min_pressure == optimal.tire_pressure_range[1]
        max_pressure == optimal.tire_pressure_range[2]
        a(cond, type, severity) ==
            IF cond THEN << [type |-> type, severity |-> severity] >> ELSE << >>
    IN  (IF temperature > max_temp + 1000 THEN a(TRUE, "temperature", "critical")
         ELSE a(temperature > max_temp, "temperature", "warning"))
        \o (IF data.battery_level < 1000000 THEN a(TRUE, "battery", "critical")
            ELSE a(data.battery_level < 2000000, "battery", "warning"))
        \o (IF data.autonomy_remaining < 3000 THEN a(TRUE, "autonomy", "critical")
            ELSE a(data.autonomy_remaining < 5000, "autonomy", "warning"))
        \o (IF data.tire_pressure < min_pressure - 300
            THEN a(TRUE, "tire_pressure", "critical")
            ELSE IF data.tire_pressure < min_pressure
            THEN a(TRUE, "tire_pressure", "warning")
            ELSE a(data.tire_pressure > max_pressure + 300, "tire_pressure", "warning"))
        \o a(trends.energy_consumption > 50 /\ history_len > 10, "trend", "info")
        \o a(trends.temperature > 70 /\ temperature > optimal.temperature_range[1] + 1000,
             "trend", "warning")

\* recommendations that also look at the anomalies they are given
recommendations_from_anomalies(data, efficiency_score, anomalies) ==
    IF \E i \in 1..Len(anomalies) : anomalies[i].type = "trend"
    THEN << "trend" >> ELSE << >>

\* _generate_recommendations(data, efficiency_score, anomalies): the
\* anomalies are received and not read; at most three recommendations
_generate_recommendations(data, efficiency_score, anomalies) ==
    LET mode == data.simulation_mode
        optimal == optimal_for(mode)
        r(cond, text) == IF cond THEN << text >> ELSE << >>
        recommendations ==
            r(mode \in Modes, mode)
            \o r(data.speed > optimal.speed_range[2] + 1000, "speed")
            \o r(data.acceleration > (optimal.acceleration_max * 12) \div 10, "acceleration")
            \o r(data.tire_pressure < optimal.tire_pressure_range[1], "tire_pressure")
            \o r(data.temperature > optimal.temperature_range[2], "temperature")
            \o r(data.battery_level < 3000000 /\ data.energy_consumption > 2000, "consumption")
            \o (IF efficiency_score < 40 THEN << "score_very_low" >>
                ELSE IF efficiency_score < 60 THEN << "score_low" >>
                ELSE r(efficiency_score > 85, "score_high"))
    IN  SubSeq(recommendations, 1, Min(3, Len(recommendations)))

\* sums over a sequence of numbers, the index counted from 0 as range() does
RECURSIVE SumY(_, _)
SumY(ys, i) == IF i > Len(ys) THEN 0 ELSE ys[i] + SumY(ys, i + 1)
RECURSIVE SumXY(_, _)
SumXY(ys, i) == IF i > Len(ys) THEN 0 ELSE (i - 1) * ys[i] + SumXY(ys, i + 1)

\* max(-1, min(1, np.polyfit(range(n), ys, 1)[0] / scale)) in 0.01, ys in 0.01:
\* the least-squares slope is (n Sxy - Sx Sy) / (n Sxx - Sx^2)
trend_of(ys, scale) ==
    LET n == Len(ys)
        sx == (n * (n - 1)) \div 2
        sxx == ((n - 1) * n * (2 * n - 1)) \div 6
        num == n * SumXY(ys, 1) - sx * SumY(ys, 1)
        den == n * sxx - sx * sx
    IN  Max(-100, Min(100, num \div (scale * den)))

\* _calculate_trends(): the last 10 entries of the history
_calculate_trends(data_history, trends) ==
    LET n == Len(data_history)
        recent_entries == SubSeq(data_history, Max(1, n - 9), n)
        m == Len(recent_entries)
        consumptions == [i \in 1..m |-> recent_entries[i].energy_consumption]
        temperatures == [i \in 1..m |-> recent_entries[i].temperature]
        battery_levels == [i \in 1..m |-> recent_entries[i].battery_level \div 1000]
    IN  IF n < 5 THEN trends
        ELSE [energy_consumption |->
                  IF \A i \in 1..m : consumptions[i] > 0
                  THEN trend_of(consumptions, 2) ELSE trends.energy_consumption,
              temperature |->
                  IF \A i \in 1..m : temperatures[i] > 0
                  THEN trend_of(temperatures, 5) ELSE trends.temperature,
              battery_drain |->
                  IF \A i \in 1..m : battery_levels[i] >= 0
                  THEN trend_of(battery_levels, 5) ELSE trends.battery_drain]

\* analyze_data(data): the assistant after the call, result included
analyze_data(a, data) ==
    LET appended == Append(a.data_history, data)
        data_history == IF Len(appended) > max_history_size THEN Tail(appended)
                        ELSE appended
        trends == IF Len(data_history) > 5 THEN _calculate_trends(data_history, a.trends)
                  ELSE a.trends
        efficiency_score == _calculate_efficiency_score(data)
        anomalies == _detect_anomalies(data, trends, Len(data_history))
        recommendations == _generate_recommendations(data, efficiency_score, anomalies)
    IN  [data_history |-> data_history,
         trends |-> trends,
         result |-> [efficiency_score |-> efficiency_score,
                     anomalies |-> anomalies,
                     recommendations |-> recommendations]]

MaxAnalyses == 11      \* analyze_data calls explored

\* the snapshots analysed: a quiet urban drive, and a hot sport drive on soft
\* tires with a low battery
Snapshots ==
    { [InitVehicleData EXCEPT !.speed = 3000, !.energy_consumption = 1600],
      [InitVehicleData EXCEPT !.simulation_mode = MODE_SPORT, !.speed = 14000,
                              !.acceleration = 380, !.temperature = 4500,
                              !.energy_consumption = 3000, !.tire_pressure = 2000,
                              !.battery_level = 1500000, !.autonomy_remaining = 4000] }

AnalyzeData ==
    /\ engine = "assistant"
    /\ Len(assistant.data_history) < MaxAnalyses
    /\ \E data \in Snapshots : assistant' = analyze_data(assistant, data)
    /\ UNCHANGED <<engine, predictor, app, starts, ticks, rtsVars, obsVars, pe, zoe, vs>>

-----------------------------------------------------------------------------
(* models.predictor.VehiclePredictor                                         *)
(* The scaler and the forest are kept as "fitted or not"; X and y are kept   *)
(* as their numbers of rows and, for predict, whether X has the columns the  *)
(* scaler was fitted on. Predictions are in 0.01 kWh/100km.                  *)

NoOutcome == [kind |-> "none", value |-> << >>]

\* VehiclePredictor.__init__; op, rows and outcome record the last call
PredictorInit ==
    [scaler_fitted |-> FALSE, model_fitted |-> FALSE, is_trained |-> FALSE,
     calls |-> 0, op |-> "none", rows |-> <<0, 0>>, outcome |-> NoOutcome]

\* train(X, y): fit_transform raises on nothing here; model.fit raises a
\* ValueError when X and y have different numbers of rows, and the except
\* clause re-raises it
train(p, x_rows, y_rows) ==
    LET q == [p EXCEPT !.calls = @ + 1, !.op = "train", !.rows = <<x_rows, y_rows>>]
    IN  IF x_rows = 0 \/ y_rows = 0
        THEN [q EXCEPT !.outcome = [kind |-> "returned", value |-> << >>]]
        ELSE IF x_rows # y_rows
        THEN [q EXCEPT !.scaler_fitted = TRUE,
                       !.outcome = [kind |-> "raised", value |-> << >>]]
        ELSE [q EXCEPT !.scaler_fitted = TRUE, !.model_fitted = TRUE,
                       !.is_trained = TRUE,
                       !.outcome = [kind |-> "returned", value |-> << >>]]

\* does scaler.transform(X) or model.predict(X_scaled) raise
predict_raises(p, columns_ok) ==
    ~p.scaler_fitted \/ ~columns_ok \/ ~p.model_fitted

\* predict without its except clause
predict_unguarded(p, columns_ok, estimate) ==
    LET q == [p EXCEPT !.calls = @ + 1, !.op = "predict", !.rows = <<1, 0>>]
    IN  IF predict_raises(p, columns_ok)
        THEN [q EXCEPT !.outcome = [kind |-> "raised", value |-> << >>]]
        ELSE [q EXCEPT !.outcome = [kind |-> "model", value |-> <<estimate>>]]

\* predict(X): any exception is logged and answered by np.array([15.0])
predict(p, columns_ok, estimate) ==
    LET q == [p EXCEPT !.calls = @ + 1, !.op = "predict", !.rows = <<1, 0>>]
    IN  IF predict_raises(p, columns_ok)
        THEN [q EXCEPT !.outcome = [kind |-> "default", value |-> <<1500>>]]
        ELSE [q EXCEPT !.outcome = [kind |-> "model", value |-> <<estimate>>]]

MaxPredictorCalls == 6    \* train and predict calls explored

Rows == {0, 2, 3}

Estimates == {1200, 1500}

Train ==
    /\ engine = "predictor"
    /\ predictor.calls < MaxPredictorCalls
    /\ \E x_rows \in Rows, y_rows \in Rows :
          predictor' = train(predictor, x_rows, y_rows)
    /\ UNCHANGED <<engine, assistant, app, starts, ticks, rtsVars, obsVars, pe, zoe, vs>>

Predict ==
    /\ engine = "predictor"
    /\ predictor.calls < MaxPredictorCalls
    /\ \E columns_ok \in BOOLEAN, estimate \in Estimates :
          predictor' = predict(predictor, columns_ok, estimate)
    /\ UNCHANGED <<engine, assistant, app, starts, ticks, rtsVars, obsVars, pe, zoe, vs>>

-----------------------------------------------------------------------------
(* app.py: the diagnostic thread and its Socket.IO handlers *)

MaxAppThreads == 3     \* generate_simulated_data threads ever created

AppTids == 1..MaxAppThreads

\* module-level globals; thread_pc is the position of each thread created
AppInit ==
    [simulation_active |-> FALSE, simulation_thread |-> 0,
     thread_pc |-> [t \in AppTids |-> "none"], handler_pc |-> "idle"]

\* positions of a generate_simulated_data thread: "none" (not created), "test"
\* (at the while test), "sleep" (in time.sleep(1) after the body), "done"
AppStep(next_app) ==
    /\ engine = "app"
    /\ app' = next_app
    /\ UNCHANGED <<engine, assistant, predictor, starts, ticks, rtsVars, obsVars, pe, zoe, vs>>

\* handle_start_diagnostic(data)
HandleStartDiagnostic ==
    /\ app.handler_pc = "idle"
    /\ IF app.simulation_active
       THEN AppStep(app)
       ELSE \E t \in AppTids :
               /\ app.thread_pc[t] = "none"
               /\ \A u \in AppTids : app.thread_pc[u] = "none" => t <= u
               /\ AppStep([app EXCEPT !.simulation_active = TRUE,
                                       !.simulation_thread = t,
                                       !.thread_pc[t] = "test"])

\* handle_stop_diagnostic() up to simulation_thread.join()
HandleStopDiagnostic ==
    /\ app.handler_pc = "idle"
    /\ IF app.simulation_active
       THEN AppStep([app EXCEPT !.simulation_active = FALSE,
                               !.handler_pc = IF app.simulation_thread # 0
                                              THEN "join" ELSE "idle"])
       ELSE AppStep(app)

\* simulation_thread.join() returns once that thread has ended
StopJoined ==
    /\ app.handler_pc = "join"
    /\ app.thread_pc[app.simulation_thread] = "done"
    /\ AppStep([app EXCEPT !.handler_pc = "idle"])

\* handle_disconnect(): the flag is cleared and nothing is joined
HandleDisconnect ==
    /\ app.handler_pc = "idle"
    /\ AppStep([app EXCEPT !.simulation_active = FALSE])

\* while simulation_active: one pass of the body, up to time.sleep(1)
GenerateTest(t) ==
    /\ app.thread_pc[t] = "test"
    /\ AppStep([app EXCEPT !.thread_pc[t] =
                               IF app.simulation_active THEN "sleep" ELSE "done"])

\* time.sleep(1) returns
GenerateWake(t) ==
    /\ app.thread_pc[t] = "sleep"
    /\ AppStep([app EXCEPT !.thread_pc[t] = "test"])

-----------------------------------------------------------------------------
(* Specifications *)

Init ==
    /\ engine = "rts"
    /\ starts = 0
    /\ ticks = 0
    /\ RTSInit
    /\ pe = PEInitState
    /\ zoe = ZoeInitState
    /\ vs = VSInitState
    /\ assistant = AssistantInit
    /\ predictor = PredictorInit
    /\ app = AppInit

\* a process instantiates one of the four simulator classes
InitAny ==
    /\ engine \in {"rts", "pe", "zoe", "vs"}
    /\ starts = 0
    /\ ticks = 0
    /\ RTSInit
    /\ pe = PEInitState
    /\ zoe = ZoeInitState
    /\ vs = VSInitState
    /\ assistant = AssistantInit
    /\ predictor = PredictorInit
    /\ app = AppInit

\* mode arguments tried where the mode is not the subject
FewModeArgs == {"None", MODE_ECO, "offroad"}

Next ==
    \/ PEUpdate
    \/ ZoeUpdateControls
    \/ ZoeUpdate
    \/ ZoeReset
    \/ VSStart
    \/ VSStop
    \/ VSTick
    \/ VSRaise
    \/ \E t \in Tids : IterateRaises(t)
    \/ \E mode \in FewModeArgs : PlainStart(mode)
    \/ \E mode \in FewModeArgs : change_mode(mode)
    \/ \E t \in Tids : Iterate(t, DynProfile, MaxTicks)

Spec == InitAny /\ [][Next]_vars

NextEvents ==
    \/ \E mode \in ModeArgs : PlainStart(mode)
    \/ \E mode \in ModeArgs : change_mode(mode)
    \/ \E t \in Tids : Iterate(t, EventProfile, MaxEventTicks)

SpecEvents == Init /\ [][NextEvents]_vars

\* start, stop and change_mode interleaved with the steps of the loop threads
NextLoop ==
    \/ \E mode \in FewModeArgs : CountedStart(mode)
    \/ \E mode \in FewModeArgs : change_mode(mode)
    \/ stop
    \/ JoinReturn
    \/ JoinTimeout
    \/ \E t \in Tids : LoopCheck(t)
    \/ \E t \in Tids : LoopUpdate(t, LoopProfile, MaxLoopTicks)
    \/ \E t \in Tids : LoopNotify(t)
    \/ \E t \in Tids : LoopSleep(t)

SpecLoop == Init /\ [][NextLoop]_vars

\* one simulator left running in one mode until its events have ended
NextLong ==
    \/ \E mode \in {MODE_AUTOROUTE, "None"} : PlainStart(mode)
    \/ \E t \in Tids : Iterate(t, LongProfile(ticks), MaxLongTicks)

SpecLong == Init /\ [][NextLong]_vars

\* subscribers registering while the loop runs and notifies them
NextSubs ==
    \/ \E mode \in {"None"} : PlainStart(mode)
    \/ \E callback \in Handlers : OnDataUpdate(callback)
    \/ \E t \in Tids : LoopCheck(t)
    \/ \E t \in Tids : LoopUpdate(t, LoopProfile, MaxLoopTicks)
    \/ \E t \in Tids : LoopNotify(t)
    \/ \E t \in Tids : LoopSleep(t)

SpecSubs == Init /\ [][NextSubs]_vars

\* another thread reading the data while the loop thread is ticking
NextRead ==
    \/ \E mode \in {"None"} : PlainStart(mode)
    \/ GetCurrentData
    \/ \E t \in Tids : LoopCheck(t)
    \/ \E t \in Tids : TickBegin(t, DynProfile, MaxTicks)
    \/ \E t \in Tids : TickEnd(t)
    \/ \E t \in Tids : LoopNotify(t)
    \/ \E t \in Tids : LoopSleep(t)

SpecRead == Init /\ [][NextRead]_vars

\* two simulators given the same start() calls, elapsed times and draws
NextTwin ==
    \/ \E mode \in {"None", MODE_ECO} : PlainStart(mode)
    \/ \E t \in Tids : TwinIterate(t, DynProfile, MaxTicks)

SpecTwin == Init /\ [][NextTwin]_vars

\* the two simulators that publish tire_pressure
InitTires ==
    /\ engine \in {"rts", "vs"}
    /\ starts = 0
    /\ ticks = 0
    /\ RTSInit
    /\ pe = PEInitState
    /\ zoe = ZoeInitState
    /\ vs = VSInitState
    /\ assistant = AssistantInit
    /\ predictor = PredictorInit
    /\ app = AppInit

NextTires ==
    \/ \E mode \in {"None"} : PlainStart(mode)
    \/ \E t \in Tids : Iterate(t, TireProfile, MaxTireTicks)
    \/ VSStart
    \/ VSTick

SpecTires == InitTires /\ [][NextTires]_vars

\* one Assistant analysing snapshots one after the other
InitAssistant ==
    /\ engine = "assistant"
    /\ starts = 0
    /\ ticks = 0
    /\ RTSInit
    /\ pe = PEInitState
    /\ zoe = ZoeInitState
    /\ vs = VSInitState
    /\ assistant = AssistantInit
    /\ predictor = PredictorInit
    /\ app = AppInit

NextAssistant == AnalyzeData

SpecAssistant == InitAssistant /\ [][NextAssistant]_vars

\* a sport drive whose mode is changed from another thread at any point of
\* the loop thread, the middle of a tick included
NextMode ==
    \/ PlainStart(MODE_SPORT)
    \/ \E new_mode \in {MODE_URBAIN, MODE_SPORT} : change_mode(new_mode)
    \/ \E t \in Tids : LoopCheck(t)
    \/ \E t \in Tids :
          TickBegin(t, [DynProfile EXCEPT !.elapsed = {600}, !.hit = {FALSE}], MaxTicks)
    \/ \E t \in Tids : TickEnd(t)
    \/ \E t \in Tids : LoopNotify(t)
    \/ \E t \in Tids : LoopSleep(t)

SpecMode == Init /\ [][NextMode]_vars

\* the Socket.IO handlers of app.py and the threads they create
InitApp ==
    /\ engine = "app"
    /\ starts = 0
    /\ ticks = 0
    /\ RTSInit
    /\ pe = PEInitState
    /\ zoe = ZoeInitState
    /\ vs = VSInitState
    /\ assistant = AssistantInit
    /\ predictor = PredictorInit
    /\ app = AppInit

NextApp ==
    \/ HandleStartDiagnostic
    \/ HandleStopDiagnostic
    \/ StopJoined
    \/ HandleDisconnect
    \/ \E t \in AppTids : GenerateTest(t)
    \/ \E t \in AppTids : GenerateWake(t)

SpecApp == InitApp /\ [][NextApp]_vars

\* a parked ZOE recorded for more than ten minutes
NextHistory == ZoeRecord

SpecHistory == InitAny /\ [][NextHistory]_vars

\* one VehiclePredictor trained and queried in any order
InitPredictor ==
    /\ engine = "predictor"
    /\ starts = 0
    /\ ticks = 0
    /\ RTSInit
    /\ pe = PEInitState
    /\ zoe = ZoeInitState
    /\ vs = VSInitState
    /\ assistant = AssistantInit
    /\ predictor = PredictorInit
    /\ app = AppInit

NextPredictor == Train \/ Predict

SpecPredictor == InitPredictor /\ [][NextPredictor]_vars

\* a drive in Eco mode from a full battery, without mode change
NextEco ==
    \/ \E mode \in {MODE_ECO} : PlainStart(mode)
    \/ \E t \in Tids : Iterate(t, EcoProfile, MaxTicks)

SpecEco == Init /\ [][NextEco]_vars

-----------------------------------------------------------------------------
(* Properties *)

\* the threads of one simulator that are inside the tick loop
LoopThreads == {t \in Tids : thread_pc[t] \in {"loop", "update", "notify", "sleep"}}

\* C1: in RealTimeSimulator the speed published by every tick lies between 0
\* and vitesse_max of the mode the tick ran in, whatever event is active and
\* whatever mode changes were made between the ticks.
C1_SpeedWithinMode ==
    /\ delivered.speed >= 0
    /\ delivered.speed <= 100 * MODE_PARAMS[delivered.simulation_mode].vitesse_max
    /\ vehicle_data.simulation_mode = current_mode

\* a tick that ran under an event in a mode other than the initial one and
\* ended exactly at that mode's vitesse_max
C1_Witness ==
    /\ ticks >= 1
    /\ current_event # NoEvent
    /\ delivered.simulation_mode # MODE_URBAIN
    /\ delivered.speed = 100 * MODE_PARAMS[delivered.simulation_mode].vitesse_max

C4_DistanceMonotone ==
    [][ticks' # ticks =>
          /\ vehicle_data'.total_distance >= vehicle_data.total_distance
          /\ pe'.total_distance >= pe.total_distance
          /\ zoe'.total_distance >= zoe.total_distance]_vars

\* the physics_engine vehicle has been rolling backwards and its distance grew
C4_Witness ==
    /\ engine = "pe"
    /\ pe.velocity < 0
    /\ pe.total_distance > 0

\* C5 as stated: after every tick or update of every engine the motor and the
\* brake temperature are at least the ambient 20 degC, for every dt > 0.
C5_AboveAmbient ==
    /\ vehicle_data.temperature >= 2000
    /\ pe.motor_temperature >= 2000
    /\ pe.brake_temperature >= 2000
    /\ zoe.motor_temperature >= 2000
    /\ zoe.brake_temperature >= 2000

\* C6: while an event is active a tick neither draws nor replaces an event,
\* whatever the outcome of the random trial: the event stays or ends, and its
\* remaining duration goes down by one.
C6_NoDrawWhileActive ==
    [][(ticks' # ticks /\ current_event # NoEvent) =>
          /\ current_event' \in {current_event, NoEvent}
          /\ event_duration' = event_duration - 1]_vars

\* an event that has been active during two ticks
C6_Witness ==
    /\ ticks = 2
    /\ current_event # NoEvent
    /\ event_duration = current_event.duration - 2

\* C7: an active event has a positive remaining duration, and the tick that
\* brings it to 0 leaves current_event None with road_condition = 0 after
\* pluie, wind_speed in [-2, 2] after vent_lateral and road_grade in [-2, 2]
\* after montee.
C7_EventEnds ==
    /\ [](current_event # NoEvent => event_duration >= 1)
    /\ [][(ticks' # ticks /\ current_event # NoEvent /\ event_duration = 1) =>
             /\ current_event' = NoEvent
             /\ current_event.name = "pluie" => vehicle_data'.road_condition = 0
             /\ current_event.name = "vent_lateral" =>
                    vehicle_data'.wind_speed \in -200..200
             /\ current_event.name = "montee" =>
                    vehicle_data'.road_grade \in -200..200]_vars

\* a vent_lateral event has run for its 30 ticks and ended
C7_Witness ==
    /\ ticks >= 30
    /\ current_event = NoEvent
    /\ vehicle_data.wind_speed = -200

\* C8 as stated: while pluie is active the delivered energy_consumption is 1.1
\* times the value the same tick publishes without the event (to within the
\* rounding of the model).
C8_RainMultiplier ==
    (ticks >= 1 /\ current_event.name = "pluie") =>
        Abs(10 * delivered.energy_consumption
            - 11 * consumption_estimate([delivered EXCEPT !.road_condition = 0],
                                        delivered.simulation_mode)) <= 20

\* C9 as stated: after two start() calls with no stop() in between exactly one
\* thread runs the loop.
C9_OneLoopAfterTwoStarts ==
    starts >= 2 => Cardinality(LoopThreads) = 1

\* C10 as stated: at most one thread of a simulator is inside a tick or its
\* notification, under every interleaving of start(), stop() and the loop.
C10_NoConcurrentTicks ==
    Cardinality({t \in Tids : thread_pc[t] \in {"update", "notify"}}) <= 1

\* C11: change_mode is accepted while stopped and while running; an unknown
\* key returns False and leaves current_mode, vehicle_data and is_running as
\* they were, a known key returns True and sets the mode.
C11_ChangeMode ==
    [][\A m \in ModeArgs : change_mode(m) =>
          /\ is_running' = is_running
          /\ IF m \in Modes
             THEN /\ ret' = "True"
                  /\ current_mode' = m
                  /\ vehicle_data' = [vehicle_data EXCEPT !.simulation_mode = m]
             ELSE /\ ret' = "False"
                  /\ UNCHANGED <<current_mode, vehicle_data>>]_vars

\* a running simulator, put in eco mode earlier, has just rejected a key
C11_Witness ==
    /\ is_running
    /\ ticks >= 1
    /\ current_mode = MODE_ECO
    /\ ret = "False"

\* C12 as stated: start(mode) with a key that is not in MODE_PARAMS leaves the
\* simulator in urbain mode, whatever mode was selected before.
C12_StartFailsClosed ==
    [][\A m \in ModeArgs \ (Modes \cup {"None"}) :
          start(m) => current_mode' = MODE_URBAIN]_vars

\* the calls of a notification, as handlers
InvokedHandlers == [i \in 1..Len(invoked) |-> invoked[i].handler]

\* C13: a notification calls every registered handler even when handlers
\* raise; it leaves the callback list and is_running as they were, and the
\* thread goes on to its sleep and the next iteration.
C13_RaisingSubscriber ==
    [][\A t \in Tids : (thread_pc[t] = "notify" /\ thread_pc'[t] # "notify") =>
          /\ InvokedHandlers' = data_update_callbacks
          /\ data_update_callbacks' = data_update_callbacks
          /\ is_running' = is_running
          /\ thread_pc'[t] = "sleep"]_vars

\* the first handler called raised, the second was called all the same, and
\* the loop has ticked again since
C13_Witness ==
    /\ Len(invoked) = 2
    /\ invoked[1].raised
    /\ \E t \in Tids : thread_pc[t] = "notify"
    /\ ticks >= 2

\* C14: the callback list never holds a handler twice, and a notification
\* calls each registered handler exactly once.
C14_OncePerHandler ==
    /\ [](\A i, j \in 1..Len(data_update_callbacks) :
              data_update_callbacks[i] = data_update_callbacks[j] => i = j)
    /\ [][\A t \in Tids : (thread_pc[t] = "notify" /\ thread_pc'[t] # "notify") =>
             \A h \in Handlers :
                Cardinality({i \in 1..Len(invoked') : invoked'[i].handler = h})
                    = IF h \in Registered(data_update_callbacks) THEN 1 ELSE 0]_vars

\* both handlers are registered, in the order 2, 1, and each was called once
C14_Witness ==
    /\ data_update_callbacks = <<2, 1>>
    /\ InvokedHandlers = <<2, 1>>
    /\ ticks >= 1

\* motor_load is the one _update_vehicle_state derives from the speed and the
\* acceleration of the same tick
Coherent(vd) ==
    \/ vd = InitVehicleData
    \/ vd.motor_load = thermal(vd, MODE_PARAMS[vd.simulation_mode]).motor_load

\* C15 as stated: what get_current_data returns to another thread is never
\* the state of a partially executed tick; in particular its motor_load
\* belongs to its speed and acceleration.
C15_ConsistentRead == Coherent(observed)

C17_ResetIsFresh == [][ZoeReset => zoe' = ZoeInitState]_vars

\* a reset has run after updates that moved the vehicle
C17_Witness == engine = "zoe" /\ ticks >= 2 /\ zoe = ZoeInitState

C19_AutonomyDecreases ==
    [][ticks' # ticks => delivered'.autonomy_remaining < delivered.autonomy_remaining]_vars

\* C20 as stated: in Eco mode from a full battery, every tick made with
\* battery_level > 0 leaves battery_level strictly smaller, regeneration
\* ticks included.
C20_BatteryDecreases ==
    [][(ticks' # ticks /\ vehicle_data.battery_level > 0)
          => vehicle_data'.battery_level < vehicle_data.battery_level]_vars

\* C21: once change_mode('sport') has returned on a running simulator, the
\* next tick works with Sport's parameters: whatever the draws, its
\* tendance_vitesse pulls the speed toward Sport's 90 km/h (never away from
\* it, and strictly toward it once the gap exceeds 0.2 km/h, the resolution
\* of the model), and every tick made in sport mode ends with speed <= 150.
C21_SportTakesEffect ==
    /\ [](current_mode = MODE_SPORT =>
            \A d \in Draws(sim, EventProfile) :
                LET t == tick_tendance(sim, d)
                IN  /\ t.speed < 9000 => t.tendance >= 0
                    /\ t.speed > 9000 => t.tendance <= 0
                    /\ t.speed <= 8980 => t.tendance > 0
                    /\ t.speed >= 9020 => t.tendance < 0)
    /\ [][(ticks' # ticks /\ current_mode = MODE_SPORT)
             => vehicle_data'.speed <= 15000]_vars

\* change_mode('sport') between two ticks of a running simulator, and the
\* second tick took the speed above Sport's 90 km/h
C21_Witness ==
    /\ is_running /\ ticks >= 2
    /\ current_mode = MODE_SPORT /\ ret = "True"
    /\ vehicle_data.speed > 9000

\* C22 as stated: once stop() has been invoked and no start() has followed,
\* the subscribers receive at most one further snapshot.
C22_AtMostOneFurtherSnapshot == snapshots_after_stop <= 1

\* C23 as stated: a simulator whose loop was ended by an exception is
\* Stopped, so that is_running is set only while a loop thread exists and a
\* later start() begins a new loop.
C23_StoppedAfterError ==
    /\ is_running => LoopThreads # {}
    /\ vs.is_running => vs.loop_alive

\* C24: tire_pressure stays at or above 1.5 bar in RealTimeSimulator and
\* within [1.8, 2.8] bar in VehicleSimulation, after any sequence of ticks.
C24_TirePressureFloor ==
    /\ vehicle_data.tire_pressure >= 1500
    /\ vs.tire_pressure \in 1800..2800

\* RealTimeSimulator has lost pressure tick after tick down to the floor
C24_Witness == engine = "rts" /\ ticks >= 9 /\ vehicle_data.tire_pressure = 1500

\* C25: an event drawn with duration D is applied on exactly D consecutive
\* ticks, the tick that draws it being the first: that tick leaves
\* event_duration = D - 1, every later tick of the event takes 1 off, the
\* event is still active after a tick exactly when the count is above 0, and
\* the event ends on the tick that finds the count at 1, or at once when D = 1.
C25_ExactlyDTicks ==
    /\ [](current_event # NoEvent =>
             event_duration \in 1..(current_event.duration - 1))
    /\ [][(ticks' # ticks /\ current_event = NoEvent /\ current_event' # NoEvent) =>
             event_duration' = current_event'.duration - 1]_vars
    /\ [][(ticks' # ticks /\ current_event # NoEvent) =>
             /\ event_duration' = event_duration - 1
             /\ current_event' = (IF event_duration = 1 THEN NoEvent ELSE current_event)]_vars

\* a montee event (D = 25) drawn on the first tick has just ended on the
\* 25th: road_grade holds the value redrawn at the end of the event
C25_Witness ==
    /\ ticks = 25
    /\ current_event = NoEvent
    /\ event_duration = 0
    /\ vehicle_data.road_grade = 200

\* C26 as stated: a tick that ends with speed <= 5 km/h delivers a snapshot
\* whose energy_consumption is conso_base of the mode of the tick.
C26_BaseConsumptionAtLowSpeed ==
    [][(ticks' # ticks /\ delivered'.speed <= 500) =>
          delivered'.energy_consumption = 100 * MODE_PARAMS[current_mode].conso_base]_vars

\* the speed after the per-tick effect of an event of the given name
speed_after_effect(name) ==
    event_effect([sim EXCEPT !.current_event = [name |-> name, duration |-> 1]],
                 [wind |-> 0, grade |-> 0]).speed

\* C27 as stated: a tick of a peage event takes less off the speed than a
\* tick of a feu_rouge event, both decrements being fixed and floored at 0.
C27_TollBelowRedLight ==
    /\ speed_after_effect("peage") = Max(0, speed_after_effect("peage"))
    /\ speed_after_effect("feu_rouge") = Max(0, speed_after_effect("feu_rouge"))
    /\ vehicle_data.speed >= 1000 =>
           vehicle_data.speed - speed_after_effect("peage")
             < vehicle_data.speed - speed_after_effect("feu_rouge")

\* the five events every mode can draw
BaseEvents == {"trafic_dense", "route_degagee", "pluie", "vent_lateral", "montee"}

\* C28: the event a tick starts comes from the candidate list of the mode at
\* the time of the draw: feu_rouge starts only in urbain, peage only in
\* autoroute, and in sport and eco only one of the five base events starts.
C28_CandidatesByMode ==
    [][(ticks' # ticks /\ current_event = NoEvent /\ current_event' # NoEvent) =>
          /\ current_event'.name = "feu_rouge" => current_mode = MODE_URBAIN
          /\ current_event'.name = "peage" => current_mode = MODE_AUTOROUTE
          /\ current_mode \in {MODE_SPORT, MODE_ECO} => current_event'.name \in BaseEvents
          /\ current_event'.name \in BaseEvents \cup {"feu_rouge", "peage"}]_vars

\* a feu_rouge event has just been drawn in urbain mode
C28_Witness ==
    /\ ticks >= 1
    /\ current_mode = MODE_URBAIN
    /\ current_event.name = "feu_rouge"
    /\ event_duration = 14

\* C29: after every tick of RealTimeSimulator the acceleration lies within
\* +/- acceleration_max of the mode the tick ran in, for every elapsed time,
\* 0 included.
C29_AccelerationWithinMode ==
    [][(engine = "rts" /\ ticks' # ticks) =>
          Abs(vehicle_data'.acceleration) <= MODE_PARAMS[current_mode].acceleration_max]_vars

\* a first tick with elapsed time 0 (no distance covered, speed unchanged)
\* that ended with the acceleration at the limit of its mode
C29_Witness ==
    /\ engine = "rts" /\ ticks = 1
    /\ vehicle_data.speed = 0 /\ vehicle_data.total_distance = 0
    /\ vehicle_data.acceleration = MODE_PARAMS[vehicle_data.simulation_mode].acceleration_max

-----------------------------------------------------------------------------
(* The assistant and the snapshots it has seen *)

\* the snapshot of the last analyze_data call
last_snapshot == assistant.data_history[Len(assistant.data_history)]

\* what an Assistant that has analysed nothing returns for the last snapshot
fresh_result == analyze_data(AssistantInit, last_snapshot).result

IsTrend(anomaly) == anomaly.type = "trend"

\* C30 as stated: analyze_data returns the same efficiency_score, anomalies
\* and recommendations for a snapshot whatever was analysed before, that is,
\* what an Assistant without history returns for it.
C30_PureFunctionOfSnapshot ==
    assistant.data_history # << >> => assistant.result = fresh_result

\* C30: the efficiency_score and the recommendations of analyze_data depend on
\* the snapshot alone, and so do the anomalies other than those of type
\* 'trend'; the 'trend' anomalies follow self.trends and the length of the
\* history, and are returned only once more than five snapshots were analysed.
C30_PureButForTrends ==
    assistant.data_history # << >> =>
        /\ assistant.result.efficiency_score = fresh_result.efficiency_score
        /\ assistant.result.recommendations = fresh_result.recommendations
        /\ SelectSeq(assistant.result.anomalies, LAMBDA anomaly : ~IsTrend(anomaly)) = fresh_result.anomalies
        /\ SelectSeq(fresh_result.anomalies, IsTrend) = << >>
        /\ (Len(assistant.data_history) <= 5 =>
               assistant.result.anomalies = fresh_result.anomalies)

\* the same snapshot analysed after a rising history carries a trend anomaly
C30_Witness ==
    /\ engine = "assistant"
    /\ Len(assistant.data_history) > 5
    /\ SelectSeq(assistant.result.anomalies, IsTrend) # << >>
    /\ assistant.result.recommendations # << >>

\* C31: for a snapshot with an unknown simulation_mode every mode-dependent
\* parameter of the scoring is Urban's: speed range, acceleration limit,
\* temperature range, tire pressure range and reference consumption, so the
\* snapshot scores as the same snapshot in Urban mode does.
C31_UnknownModeScoresAsUrban ==
    assistant.data_history # << >> =>
        /\ optimal_for("inconnu") = optimal_params[MODE_URBAIN]
        /\ reference_consumption("inconnu") = reference_consumption(MODE_URBAIN)
        /\ _calculate_efficiency_score([last_snapshot EXCEPT !.simulation_mode = "inconnu"])
             = _calculate_efficiency_score([last_snapshot EXCEPT !.simulation_mode = MODE_URBAIN])

-----------------------------------------------------------------------------
(* The predictor before it is trained *)

\* C32: predict called before any successful train() does not raise and
\* returns the default estimate [15.0]; train() with empty X or y leaves
\* is_trained as it was, False before any successful train().
C32_DefaultBeforeTraining ==
    /\ []((predictor.op = "predict" /\ ~predictor.is_trained) =>
             predictor.outcome = [kind |-> "default", value |-> <<1500>>])
    /\ [][(predictor' # predictor /\ predictor'.op = "train"
            /\ (predictor'.rows[1] = 0 \/ predictor'.rows[2] = 0)) =>
             /\ predictor'.is_trained = predictor.is_trained
             /\ predictor'.outcome.kind = "returned"]_vars
    /\ [](predictor.is_trained => (predictor.scaler_fitted /\ predictor.model_fitted))

\* a failed train() fitted the scaler only, and predict still answers [15.0]
C32_Witness ==
    /\ predictor.op = "predict"
    /\ ~predictor.is_trained
    /\ predictor.scaler_fitted
    /\ predictor.calls >= 3
    /\ predictor.outcome.value = <<1500>>

-----------------------------------------------------------------------------
(* change_mode against the tick *)

\* C33: with change_mode running on another thread while a tick is in
\* flight, every delivered snapshot has speed <= vitesse_max of the mode in
\* its own simulation_mode field.
C33_DeliveredWithinReportedMode ==
    delivered.speed <= 100 * MODE_PARAMS[delivered.simulation_mode].vitesse_max

\* C34: after any sequence of completed start(mode) and change_mode(mode)
\* calls, with valid or invalid keys, current_mode is a key of MODE_PARAMS and
\* vehicle_data['simulation_mode'] equals current_mode.
C34_ModeCoherent ==
    /\ current_mode \in DOMAIN MODE_PARAMS
    /\ vehicle_data.simulation_mode = current_mode

\* a running simulator put in another mode has then rejected a key
C34_Witness ==
    /\ engine = "rts"
    /\ is_running
    /\ ticks >= 1
    /\ ret = "False"
    /\ current_mode # MODE_URBAIN
    /\ vehicle_data.simulation_mode = current_mode

-----------------------------------------------------------------------------
(* app.py *)

\* C35: for every sequence of start_diagnostic, stop_diagnostic and
\* disconnect events, at most one generate_simulated_data thread is live at
\* any time.
C35_OneDiagnosticThread ==
    Cardinality({t \in AppTids : app.thread_pc[t] \in {"test", "sleep"}}) <= 1

-----------------------------------------------------------------------------
(* vehicle_simulation.VehiclePhysicsSimulation: distance and history *)

\* C36: each _update_physics step increases total_distance by exactly
\* |velocity after the step| * dt, the length of the displacement the step
\* adds to position, also when the speed is capped at max_speed or snapped to
\* zero below 0.1 m/s.
C36_DistanceIsDisplacement ==
    \A dt \in ZoeDt :
        LET after == _update_physics(zoe, dt)
        IN  after.total_distance - zoe.total_distance
              = (norm(after.velocity) * dt) \div 100

-----------------------------------------------------------------------------
(* physics_engine.VehiclePhysicsSimulation: braking *)

\* C37: in update(controls) with throttle >= 0 and gear >= 0, braking never
\* drives the vehicle backwards: a vehicle at zero velocity with brake > 0
\* stays at zero velocity, and a forward velocity never becomes negative.
C37_BrakingNeverReverses ==
    [][(pe'.velocity # pe.velocity /\ pe.velocity >= 0
        /\ pe'.controls.throttle >= 0 /\ pe'.controls.gear >= 0) =>
          /\ pe'.velocity >= 0
          /\ (pe.velocity = 0 /\ pe'.controls.brake > 0 => pe'.velocity = 0)]_vars

-----------------------------------------------------------------------------
(* The fields an event touches *)

\* C38: trafic_dense, route_degagee, feu_rouge and peage leave road_condition,
\* wind_speed and road_grade unchanged on every tick, their last included; the
\* end-of-event reversion of pluie, vent_lateral and montee rewrites only the
\* one road field of that event (road_condition, wind_speed, road_grade), and
\* a tick changes none of the three fields but the one of the event applied.
C38_EventsTouchOwnField ==
    /\ [](\A name \in EventKinds : \A dur \in {1, 2} :
            LET s == [sim EXCEPT !.current_event = [name |-> name, duration |-> 2],
                                 !.event_duration = dur]
                own == IF name = "pluie" THEN {"road_condition"}
                       ELSE IF name = "vent_lateral" THEN {"wind_speed"}
                       ELSE IF name = "montee" THEN {"road_grade"}
                       ELSE {}
            IN  \A d \in Draws(s, LongProfile(EventWindow)) :
                   LET effect == event_effect(s, d)
                       after == _apply_event_effects(s, d)
                   IN  /\ after.current_event = (IF dur = 1 THEN NoEvent ELSE s.current_event)
                       /\ \A f \in {"road_condition", "wind_speed", "road_grade"} \ own :
                              after.vehicle_data[f] = vehicle_data[f]
                       /\ \A f \in DOMAIN vehicle_data \ own :
                              after.vehicle_data[f] = effect[f])
    /\ [][ticks' # ticks =>
            LET applied == IF current_event # NoEvent THEN current_event.name
                           ELSE current_event'.name
            IN  /\ applied # "pluie" => vehicle_data'.road_condition = vehicle_data.road_condition
                /\ applied # "vent_lateral" => vehicle_data'.wind_speed = vehicle_data.wind_speed
                /\ applied # "montee" => vehicle_data'.road_grade = vehicle_data.road_grade]_vars

\* a side wind has ended: wind_speed was drawn anew, road_grade and
\* road_condition were left alone
C38_Witness ==
    /\ ticks >= 30
    /\ current_event = NoEvent
    /\ event_duration = 0
    /\ vehicle_data.wind_speed \in {-200, 200}
    /\ vehicle_data.road_grade = 0
    /\ vehicle_data.road_condition = 0

-----------------------------------------------------------------------------
(* vehicle_simulation.VehiclePhysicsSimulation: the history *)

\* C39: after n update() calls the history holds the states of the most
\* recent min(n, 600) updates in call order, the oldest dropped first, and
\* get_history(start, end) returns exactly the stored states with
\* start <= t <= end in that order (None standing for the first and the last
\* stored time).  Update number k is stamped t = k.
C39_HistoryWindow ==
    /\ [](engine = "zoe" =>
           LET h == zoe.history
               n == ticks
               oldest == n - Len(h) + 1
           IN  /\ Len(h) = Min(n, 600)
               /\ \A i \in 1..Len(h) : h[i].t = oldest + i - 1
               /\ (h # << >> => h[Len(h)].state = get_current_state(zoe))
               /\ \A start_time \in {<< >>, <<n - 1>>, <<oldest + 1>>, <<n + 1>>} :
                  \A end_time \in {<< >>, <<n - 1>>, <<oldest>>, <<oldest - 1>>} :
                     LET lo == Max(oldest, IF start_time = << >> THEN oldest ELSE start_time[1])
                         hi == Min(n, IF end_time = << >> THEN n ELSE end_time[1])
                         got == get_history(h, start_time, end_time)
                     IN  /\ Len(got) = Max(0, hi - lo + 1)
                         /\ \A j \in 1..Len(got) : got[j] = h[lo - oldest + j].state)
    /\ [][zoe'.history # zoe.history /\ zoe'.history # << >> =>
            SubSeq(zoe'.history, 1, Len(zoe'.history) - 1)
              = (IF Len(zoe.history) = 600 THEN Tail(zoe.history) ELSE zoe.history)]_vars

\* the recording has run past its capacity: the first two updates are gone
C39_Witness ==
    /\ engine = "zoe"
    /\ ticks = 602
    /\ Len(zoe.history) = 600
    /\ zoe.history[1].t = 3
    /\ zoe.history[600].t = 602

====
